---- MODULE Spec2Model ----
(***************************************************************************)
(* Laserfiche WebLink client (src/src/lib/WebLinkClient.ts) with its       *)
(* helpers (getEntryType) as a state machine: one client instance, a       *)
(* caller that invokes its public operations one after the other, and a    *)
(* backend (the transport) that answers every request nondeterministically.*)
(*                                                                         *)
(* Text the code inspects character by character (URLs, Set-Cookie lines,  *)
(* the Cookie header) is a tuple of one-character strings.  A value that   *)
(* may be undefined/null is a tuple of length 0 or 1: << >> is undefined.  *)
(***************************************************************************)
EXTENDS Integers, Sequences, FiniteSets, TLC

VARIABLES
    cookies,      \* WebLinkClient.cookies: the jar, a Map in insertion order
    log,          \* the requests the operation in progress has issued, each
                  \* with the response it received
    calls,        \* number of public operations invoked so far
    op,           \* the public operation in progress / last completed
    args,         \* its arguments
    pc,           \* position: "idle", "fetch", "fetched", "listed", "done", "parse"
    phase,        \* initSession: 1 = root request, 2 = login request
    url,          \* fetch: the url argument of the pending (recursive) call
    options,      \* fetch: the options argument of the pending call
    response,     \* fetch: the response it returned
    listing,      \* getFolderListing: the value it returned (<< >> = null)
    loc,          \* getAllEntries: its local variables
    outcome,      \* "none", "returned" or "raised"
    result,       \* the value the completed operation returned
    earlier,      \* history: the cookies the backend set during earlier operations
    jar0          \* history: the jar when the operation in progress was invoked

vars == <<cookies, log, calls, op, args, pc, phase, url, options, response,
          listing, loc, outcome, result, earlier, jar0>>

-----------------------------------------------------------------------------
(* Bounds of the model *)

\* number of HTTP requests one operation may issue
MaxRequests == 3
\* number of public operations the caller invokes in one behaviour
MaxCalls == 2

-----------------------------------------------------------------------------
(* JavaScript string primitives on tuples of characters *)

Whitespace == {" "}

\* String.prototype.indexOf(ch): 0-based index of the first ch, -1 if none
IndexOf(s, ch) ==
    IF \E i \in 1..Len(s) : s[i] = ch
    THEN (CHOOSE i \in 1..Len(s) : s[i] = ch /\ \A j \in 1..(i-1) : s[j] # ch) - 1
    ELSE -1

\* String.prototype.slice(a, b) for 0 <= a, b <= length
Slice(s, a, b) == SubSeq(s, a + 1, b)

\* String.prototype.startsWith(p)
StartsWith(s, p) == Len(s) >= Len(p) /\ SubSeq(s, 1, Len(p)) = p

\* String.prototype.trim()
Trim(s) ==
    IF \A i \in 1..Len(s) : s[i] \in Whitespace THEN << >>
    ELSE LET lo == CHOOSE i \in 1..Len(s) :
                     s[i] \notin Whitespace /\ \A j \in 1..(i-1) : s[j] \in Whitespace
             hi == CHOOSE i \in 1..Len(s) :
                     s[i] \notin Whitespace /\ \A j \in (i+1)..Len(s) : s[j] \in Whitespace
         IN SubSeq(s, lo, hi)

\* Array.prototype.join(sep) on an array of strings
RECURSIVE Join(_, _)
Join(parts, sep) ==
    IF parts = << >> THEN << >>
    ELSE IF Len(parts) = 1 THEN parts[1]
    ELSE parts[1] \o sep \o Join(Tail(parts), sep)

\* `${n}` for a non-negative integer n: its decimal digits
RECURSIVE Decimal(_)
Decimal(n) ==
    LET digit == <<"0", "1", "2", "3", "4", "5", "6", "7", "8", "9">>[(n % 10) + 1]
    IN IF n < 10 THEN <<digit>> ELSE Decimal(n \div 10) \o <<digit>>

\* x || y on optional values: y when x is undefined
OrElse(x, y) == IF x # << >> THEN x[1] ELSE y

\* obj.key on a JSON object (a function on its keys): undefined when absent
Get(obj, key) == IF key \in DOMAIN obj THEN <<obj[key]>> ELSE << >>

-----------------------------------------------------------------------------
(* Texts *)

sEq == <<"=">>
sSlash == <<"/">>
sCookieSep == <<";", " ">>
sHttp == <<"h", "t", "t", "p">>
sSchemeSep == <<":", "/", "/">>

\* WebLinkConfig given to the constructor
config ==
    [ baseUrl  |-> <<"h", "t", "t", "p", "s", ":", "/", "/", "l", "f", ".", "g", "o", "v", "/", "W", "e", "b", "L", "i", "n", "k">>,
      repoName |-> <<"R", "e", "p", "o">>,
      dbid     |-> 0 ]

sLoginPath == <<"/", "L", "o", "g", "i", "n", ".", "a", "s", "p", "x", "?", "d", "b", "i", "d", "=">>
sRepoParam == <<"&", "r", "e", "p", "o", "=">>
sListingPath == <<"/", "F", "o", "l", "d", "e", "r", "L", "i", "s", "t", "i", "n", "g", "S", "e", "r", "v", "i", "c", "e", ".", "a", "s", "p", "x", "/", "G", "e", "t", "F", "o", "l", "d", "e", "r", "L", "i", "s", "t", "i", "n", "g", "2">>

\* Location header values the backend sends
locOther == <<"/", "O", "t", "h", "e", "r", ".", "a", "s", "p", "x">>
locWelcome == <<"W", "e", "l", "c", "o", "m", "e", ".", "a", "s", "p", "x">>
locAbsolute == <<"h", "t", "t", "p", ":", "/", "/", "s", "s", "o", ".", "g", "o", "v", "/", "i", "n">>
locEmpty == << >>

\* Set-Cookie header lines the backend sends
scA1 == <<"A", "=", "1">>
scB2 == <<"B", "=", "2">>
scA2Path == <<"A", "=", "2", ";", " ", "P", "a", "t", "h", "=", "/">>
scJunk == <<"j", "u", "n", "k">>
scSpaced    == <<" ", "B", " ", "=", " ", "2", " ", ";", " ", "H", "t", "t", "p", "O", "n", "l", "y">>
scNoName    == <<"=", "x">>
scBlankName == <<" ", "=", "y">>
scLate      == <<"F", ";", "G", "=", "1">>
scEquals    == <<"E", "=", "a", "=", "b">>

-----------------------------------------------------------------------------
(* The cookie jar: Map<string, string>, a sequence of [name, value] *)

MapHas(m, k) == \E i \in 1..Len(m) : m[i].name = k

\* Map.prototype.set: an existing key keeps its position and takes the value
MapSet(m, k, v) ==
    IF MapHas(m, k)
    THEN [i \in 1..Len(m) |-> IF m[i].name = k THEN [name |-> k, value |-> v] ELSE m[i]]
    ELSE Append(m, [name |-> k, value |-> v])

MapKeys(m) == {m[i].name : i \in 1..Len(m)}

\* mutant: only the entry added last is sent
getCookieHeader_lastOnly(jar) ==
    IF jar = << >> THEN << >>
    ELSE jar[Len(jar)].name \o sEq \o jar[Len(jar)].value

\* getCookieHeader(): "name=value" of every entry joined with "; "
getCookieHeader(jar) ==
    Join([i \in 1..Len(jar) |-> jar[i].name \o sEq \o jar[i].value], sCookieSep)

\* mutant: the cookie replaces the jar instead of joining it
parseCookie_replacing(jar, cookie) ==
    LET semi      == IndexOf(cookie, ";")
        nameValue == IF semi < 0 THEN cookie ELSE Slice(cookie, 0, semi)
        eqIdx     == IndexOf(nameValue, "=")
    IN IF eqIdx > 0
       THEN MapSet(<< >>, Trim(Slice(nameValue, 0, eqIdx)),
                          Trim(Slice(nameValue, eqIdx + 1, Len(nameValue))))
       ELSE jar

\* mutant: every cookie set is a new entry of the jar
parseCookie_appending(jar, cookie) ==
    LET semi      == IndexOf(cookie, ";")
        nameValue == IF semi < 0 THEN cookie ELSE Slice(cookie, 0, semi)
        eqIdx     == IndexOf(nameValue, "=")
    IN IF eqIdx > 0
       THEN Append(jar, [name  |-> Trim(Slice(nameValue, 0, eqIdx)),
                         value |-> Trim(Slice(nameValue, eqIdx + 1, Len(nameValue)))])
       ELSE jar

\* mutant: name and value are stored untrimmed
parseCookie_noTrim(jar, cookie) ==
    LET semi      == IndexOf(cookie, ";")
        nameValue == IF semi < 0 THEN cookie ELSE Slice(cookie, 0, semi)
        eqIdx     == IndexOf(nameValue, "=")
    IN IF eqIdx > 0
       THEN MapSet(jar, Slice(nameValue, 0, eqIdx),
                        Slice(nameValue, eqIdx + 1, Len(nameValue)))
       ELSE jar

\* one iteration of the loop of parseCookies
parseCookie(jar, cookie) ==
    LET semi      == IndexOf(cookie, ";")
        nameValue == IF semi < 0 THEN cookie ELSE Slice(cookie, 0, semi)
        eqIdx     == IndexOf(nameValue, "=")
    IN IF eqIdx > 0
       THEN MapSet(jar, Trim(Slice(nameValue, 0, eqIdx)),
                        Trim(Slice(nameValue, eqIdx + 1, Len(nameValue))))
       ELSE jar

\* mutant: the first line that sets no cookie ends the loop
RECURSIVE parseCookies_abort(_, _)
parseCookies_abort(jar, setCookieHeaders) ==
    IF setCookieHeaders = << >> THEN jar
    ELSE IF IndexOf(Head(setCookieHeaders), "=") <= 0 THEN jar
    ELSE parseCookies_abort(parseCookie(jar, Head(setCookieHeaders)), Tail(setCookieHeaders))

\* parseCookies(response): every Set-Cookie line of the response, in order
RECURSIVE parseCookies(_, _)
parseCookies(jar, setCookieHeaders) ==
    IF setCookieHeaders = << >> THEN jar
    ELSE parseCookies(parseCookie(jar, Head(setCookieHeaders)), Tail(setCookieHeaders))

-----------------------------------------------------------------------------
(* URLs *)

\* new URL(u).origin of an http(s) url: scheme://host, up to the path
Origin(u) ==
    LET i == CHOOSE k \in 1..(Len(u) - 2) : SubSeq(u, k, k + 2) = sSchemeSep
        rest == SubSeq(u, i + 3, Len(u))
        j == IndexOf(rest, "/")
    IN IF j < 0 THEN u ELSE SubSeq(u, 1, i + 2 + j)

\* mutant: a path starting with "/" is resolved against the base URL
resolveUrl_underBase(u) ==
    IF StartsWith(u, sHttp) THEN u
    ELSE IF StartsWith(u, sSlash) THEN config.baseUrl \o u
    ELSE config.baseUrl \o sSlash \o u

\* resolveUrl(url)
resolveUrl(u) ==
    IF StartsWith(u, sHttp) THEN u
    ELSE IF StartsWith(u, sSlash) THEN Origin(config.baseUrl) \o u
    ELSE config.baseUrl \o sSlash \o u

rootUrl == config.baseUrl \o sSlash
loginUrl == config.baseUrl \o sLoginPath \o Decimal(config.dbid) \o sRepoParam \o config.repoName
listingUrl == config.baseUrl \o sListingPath

-----------------------------------------------------------------------------
(* Entry types *)

\* the record `types` of getEntryType, keyed by the EntryType enum
EntryTypeCodes == {0, 1, 2, -2}

types(typeNum) ==
    CASE typeNum = 0  -> "Folder"
      [] typeNum = 1  -> "Document"
      [] typeNum = 2  -> "Shortcut"
      [] typeNum = -2 -> "Document"

\* mutant: the alternate document code -2 is not in the table
getEntryType_noAlt(typeNum) ==
    IF typeNum \in EntryTypeCodes \ {-2} THEN types(typeNum)
    ELSE "Unknown(" \o ToString(typeNum) \o ")"

\* getEntryType(typeNum): types[typeNum] || `Unknown(${typeNum})`
getEntryType(typeNum) ==
    IF typeNum \in EntryTypeCodes THEN types(typeNum)
    ELSE "Unknown(" \o ToString(typeNum) \o ")"

-----------------------------------------------------------------------------
(* Decoding a listing *)

\* mutant: only the key "data" is read
unwrapAll_dataOnly(resp) ==
    IF resp = << >> THEN << >> ELSE OrElse(Get(resp[1], "data"), << >>)

\* mutant: the key "d" is read first
unwrapAll_dFirst(resp) ==
    LET viaData == IF resp = << >> THEN << >> ELSE OrElse(Get(resp[1], "data"), << >>)
        viaD    == IF resp = << >> THEN << >> ELSE OrElse(Get(resp[1], "d"), << >>)
    IN IF viaD # << >> THEN viaD ELSE viaData

\* response?.data || response?.d, on the value getFolderListing returned
unwrapAll(resp) ==
    LET viaData == IF resp = << >> THEN << >> ELSE OrElse(Get(resp[1], "data"), << >>)
        viaD    == IF resp = << >> THEN << >> ELSE OrElse(Get(resp[1], "d"), << >>)
    IN IF viaData # << >> THEN viaData ELSE viaD

\* the same expression in browseFolder
unwrapBrowse(resp) ==
    LET viaData == IF resp = << >> THEN << >> ELSE OrElse(Get(resp[1], "data"), << >>)
        viaD    == IF resp = << >> THEN << >> ELSE OrElse(Get(resp[1], "d"), << >>)
    IN IF viaData # << >> THEN viaData ELSE viaD

\* mutant: the columns are read at fixed positions
findIndex_fixed(colTypes, name) ==
    CASE name = "PageCount"    -> 0
      [] name = "TemplateName" -> 1
      [] name = "CreationDate" -> 2
      [] name = "LastModified" -> 3

\* colTypes.findIndex(c => c.name === name): 0-based, -1 when absent
findIndex(colTypes, name) ==
    IF \E i \in 1..Len(colTypes) : colTypes[i].name = name
    THEN (CHOOSE i \in 1..Len(colTypes) :
            colTypes[i].name = name /\ \A j \in 1..(i-1) : colTypes[j].name # name) - 1
    ELSE -1

\* idx >= 0 ? result.data?.[idx] : undefined
column(res, idx) ==
    IF idx >= 0 /\ "data" \in DOMAIN res /\ idx < Len(res.data)
    THEN <<res.data[idx + 1]>>
    ELSE << >>

\* the entry getAllEntries pushes for one result row of a page
allEntry(res, colTypes) ==
    [ id               |-> res.entryId,
      name             |-> res.name,
      type             |-> getEntryType(res.type),
      pageCount        |-> column(res, findIndex(colTypes, "PageCount")),
      template         |-> column(res, findIndex(colTypes, "TemplateName")),
      creationDate     |-> column(res, findIndex(colTypes, "CreationDate")),
      modificationDate |-> column(res, findIndex(colTypes, "LastModified")) ]

\* the entry browseFolder maps one result row to
browseEntry(res, colTypes) ==
    [ id               |-> res.entryId,
      name             |-> res.name,
      type             |-> getEntryType(res.type),
      pageCount        |-> column(res, findIndex(colTypes, "PageCount")),
      template         |-> column(res, findIndex(colTypes, "TemplateName")),
      creationDate     |-> column(res, findIndex(colTypes, "CreationDate")),
      modificationDate |-> column(res, findIndex(colTypes, "LastModified")) ]

\* const pageSize = 500 of getAllEntries
pageSize == 500
\* the default window end of getFolderListing
defaultEnd == 500
\* mutant: browseFolder asks for the default window
browseEnd_default == defaultEnd
\* the window end browseFolder asks for
browseEnd == 100
\* the folder id getRootFolder browses
rootFolderId == 1

\* the locals of getAllEntries before its loop
allLocals0 ==
    [ entries |-> << >>, folderName |-> "", start |-> 0, totalEntries |-> 0,
      firstFetch |-> TRUE, looping |-> TRUE ]

\* mutant: the offset advances by the number of rows received
allEntriesStep_byRows(l, resp) ==
    LET data == unwrapAll(resp) IN
    IF data = << >> THEN [l EXCEPT !.looping = FALSE]
    ELSE
      LET d        == data[1]
          name1    == IF l.firstFetch THEN OrElse(Get(d, "name"), "") ELSE l.folderName
          total1   == IF l.firstFetch THEN OrElse(Get(d, "totalEntries"), 0)
                      ELSE l.totalEntries
          results  == OrElse(Get(d, "results"), << >>)
          colTypes == OrElse(Get(d, "colTypes"), << >>)
          start1   == l.start + Len(results)
      IN [ entries      |-> l.entries \o
                              [i \in 1..Len(results) |-> allEntry(results[i], colTypes)],
           folderName   |-> name1,
           start        |-> start1,
           totalEntries |-> total1,
           firstFetch   |-> FALSE,
           looping      |-> start1 < total1 ]

\* mutant: a page without results ends the loop before anything is captured
allEntriesStep_stopOnEmpty(l, resp) ==
    LET data == unwrapAll(resp) IN
    IF data = << >> \/ OrElse(Get(data[1], "results"), << >>) = << >>
    THEN [l EXCEPT !.looping = FALSE]
    ELSE
      LET d        == data[1]
          name1    == IF l.firstFetch THEN OrElse(Get(d, "name"), "") ELSE l.folderName
          total1   == IF l.firstFetch THEN OrElse(Get(d, "totalEntries"), 0)
                      ELSE l.totalEntries
          results  == OrElse(Get(d, "results"), << >>)
          colTypes == OrElse(Get(d, "colTypes"), << >>)
          start1   == l.start + pageSize
      IN [ entries      |-> l.entries \o
                              [i \in 1..Len(results) |-> allEntry(results[i], colTypes)],
           folderName   |-> name1,
           start        |-> start1,
           totalEntries |-> total1,
           firstFetch   |-> FALSE,
           looping      |-> start1 < total1 ]

\* mutant: the columns of the first page are used for every page
allEntriesStep_firstCols(l, resp) ==
    LET data == unwrapAll(resp) IN
    IF data = << >> THEN [l EXCEPT !.looping = FALSE]
    ELSE
      LET d        == data[1]
          name1    == IF l.firstFetch THEN OrElse(Get(d, "name"), "") ELSE l.folderName
          total1   == IF l.firstFetch THEN OrElse(Get(d, "totalEntries"), 0)
                      ELSE l.totalEntries
          results  == OrElse(Get(d, "results"), << >>)
          colTypes == IF l.firstFetch THEN OrElse(Get(d, "colTypes"), << >>) ELSE l.cols
          start1   == l.start + pageSize
      IN [ entries      |-> l.entries \o
                              [i \in 1..Len(results) |-> allEntry(results[i], colTypes)],
           folderName   |-> name1,
           start        |-> start1,
           totalEntries |-> total1,
           firstFetch   |-> FALSE,
           looping      |-> start1 < total1,
           cols         |-> colTypes ]

\* mutant: every page overwrites the folder name and the total
allEntriesStep_latestTotals(l, resp) ==
    LET data == unwrapAll(resp) IN
    IF data = << >> THEN [l EXCEPT !.looping = FALSE]
    ELSE
      LET d        == data[1]
          name1    == OrElse(Get(d, "name"), "")
          total1   == OrElse(Get(d, "totalEntries"), 0)
          results  == OrElse(Get(d, "results"), << >>)
          colTypes == OrElse(Get(d, "colTypes"), << >>)
          start1   == l.start + pageSize
      IN [ entries      |-> l.entries \o
                              [i \in 1..Len(results) |-> allEntry(results[i], colTypes)],
           folderName   |-> name1,
           start        |-> start1,
           totalEntries |-> total1,
           firstFetch   |-> FALSE,
           looping      |-> start1 < total1 ]

\* mutant: a listing without payload is skipped and the loop goes on
allEntriesStep_skipMissing(l, resp) ==
    LET data == unwrapAll(resp) IN
    IF data = << >>
    THEN [l EXCEPT !.start = l.start + pageSize,
                   !.looping = l.start + pageSize < l.totalEntries]
    ELSE
      LET d        == data[1]
          name1    == IF l.firstFetch THEN OrElse(Get(d, "name"), "") ELSE l.folderName
          total1   == IF l.firstFetch THEN OrElse(Get(d, "totalEntries"), 0)
                      ELSE l.totalEntries
          results  == OrElse(Get(d, "results"), << >>)
          colTypes == OrElse(Get(d, "colTypes"), << >>)
          start1   == l.start + pageSize
      IN [ entries      |-> l.entries \o
                              [i \in 1..Len(results) |-> allEntry(results[i], colTypes)],
           folderName   |-> name1,
           start        |-> start1,
           totalEntries |-> total1,
           firstFetch   |-> FALSE,
           looping      |-> start1 < total1 ]

\* mutant: the loop gives up after two pages
allEntriesStep_twoPages(l, resp) ==
    LET data == unwrapAll(resp) IN
    IF data = << >> THEN [l EXCEPT !.looping = FALSE]
    ELSE
      LET d        == data[1]
          name1    == IF l.firstFetch THEN OrElse(Get(d, "name"), "") ELSE l.folderName
          total1   == IF l.firstFetch THEN OrElse(Get(d, "totalEntries"), 0)
                      ELSE l.totalEntries
          results  == OrElse(Get(d, "results"), << >>)
          colTypes == OrElse(Get(d, "colTypes"), << >>)
          start1   == l.start + pageSize
      IN [ entries      |-> l.entries \o
                              [i \in 1..Len(results) |-> allEntry(results[i], colTypes)],
           folderName   |-> name1,
           start        |-> start1,
           totalEntries |-> total1,
           firstFetch   |-> FALSE,
           looping      |-> start1 < total1 /\ start1 < 2 * pageSize ]

\* mutant: a while loop, the total is tested before the rows are pushed
allEntriesStep_whileLoop(l, resp) ==
    LET data == unwrapAll(resp) IN
    IF data = << >> THEN [l EXCEPT !.looping = FALSE]
    ELSE
      LET d        == data[1]
          name1    == IF l.firstFetch THEN OrElse(Get(d, "name"), "") ELSE l.folderName
          total1   == IF l.firstFetch THEN OrElse(Get(d, "totalEntries"), 0)
                      ELSE l.totalEntries
          results  == IF l.start < total1 THEN OrElse(Get(d, "results"), << >>) ELSE << >>
          colTypes == OrElse(Get(d, "colTypes"), << >>)
          start1   == l.start + pageSize
      IN [ entries      |-> l.entries \o
                              [i \in 1..Len(results) |-> allEntry(results[i], colTypes)],
           folderName   |-> name1,
           start        |-> start1,
           totalEntries |-> total1,
           firstFetch   |-> FALSE,
           looping      |-> start1 < total1 ]

\* mutant: a page without rows ends the loop
allEntriesStep_untilEmptyPage(l, resp) ==
    LET data == unwrapAll(resp) IN
    IF data = << >> THEN [l EXCEPT !.looping = FALSE]
    ELSE
      LET d        == data[1]
          name1    == IF l.firstFetch THEN OrElse(Get(d, "name"), "") ELSE l.folderName
          total1   == IF l.firstFetch THEN OrElse(Get(d, "totalEntries"), 0)
                      ELSE l.totalEntries
          results  == OrElse(Get(d, "results"), << >>)
          colTypes == OrElse(Get(d, "colTypes"), << >>)
          start1   == l.start + pageSize
      IN [ entries      |-> l.entries \o
                              [i \in 1..Len(results) |-> allEntry(results[i], colTypes)],
           folderName   |-> name1,
           start        |-> start1,
           totalEntries |-> total1,
           firstFetch   |-> FALSE,
           looping      |-> start1 < total1 /\ results # << >> ]

\* the rows whose entryId is not among the ids of the entries `seen`
RECURSIVE Unseen(_, _)
Unseen(rows, seen) ==
    IF rows = << >> THEN << >>
    ELSE (IF \E i \in 1..Len(seen) : seen[i].id = Head(rows).entryId
          THEN << >> ELSE <<Head(rows)>>) \o Unseen(Tail(rows), seen)

\* mutant: a row whose id was returned by an earlier page is dropped
allEntriesStep_dedupe(l, resp) ==
    LET data == unwrapAll(resp) IN
    IF data = << >> THEN [l EXCEPT !.looping = FALSE]
    ELSE
      LET d        == data[1]
          name1    == IF l.firstFetch THEN OrElse(Get(d, "name"), "") ELSE l.folderName
          total1   == IF l.firstFetch THEN OrElse(Get(d, "totalEntries"), 0)
                      ELSE l.totalEntries
          results  == Unseen(OrElse(Get(d, "results"), << >>), l.entries)
          colTypes == OrElse(Get(d, "colTypes"), << >>)
          start1   == l.start + pageSize
      IN [ entries      |-> l.entries \o
                              [i \in 1..Len(results) |-> allEntry(results[i], colTypes)],
           folderName   |-> name1,
           start        |-> start1,
           totalEntries |-> total1,
           firstFetch   |-> FALSE,
           looping      |-> start1 < total1 ]

\* mutant: the loop runs to the largest total any page has reported
allEntriesStep_largestTotal(l, resp) ==
    LET data == unwrapAll(resp) IN
    IF data = << >> THEN [l EXCEPT !.looping = FALSE]
    ELSE
      LET d        == data[1]
          name1    == IF l.firstFetch THEN OrElse(Get(d, "name"), "") ELSE l.folderName
          seen     == OrElse(Get(d, "totalEntries"), 0)
          total1   == IF l.firstFetch \/ seen > l.totalEntries THEN seen
                      ELSE l.totalEntries
          results  == OrElse(Get(d, "results"), << >>)
          colTypes == OrElse(Get(d, "colTypes"), << >>)
          start1   == l.start + pageSize
      IN [ entries      |-> l.entries \o
                              [i \in 1..Len(results) |-> allEntry(results[i], colTypes)],
           folderName   |-> name1,
           start        |-> start1,
           totalEntries |-> total1,
           firstFetch   |-> FALSE,
           looping      |-> start1 < total1 ]

\* one iteration of the do-while loop of getAllEntries, from the value the
\* awaited getFolderListing returned to the loop condition
allEntriesStep(l, resp) ==
    LET data == unwrapAll(resp) IN
    IF data = << >> THEN [l EXCEPT !.looping = FALSE]
    ELSE
      LET d        == data[1]
          name1    == IF l.firstFetch THEN OrElse(Get(d, "name"), "") ELSE l.folderName
          total1   == IF l.firstFetch THEN OrElse(Get(d, "totalEntries"), 0)
                      ELSE l.totalEntries
          results  == OrElse(Get(d, "results"), << >>)
          colTypes == OrElse(Get(d, "colTypes"), << >>)
          start1   == l.start + pageSize
      IN [ entries      |-> l.entries \o
                              [i \in 1..Len(results) |-> allEntry(results[i], colTypes)],
           folderName   |-> name1,
           start        |-> start1,
           totalEntries |-> total1,
           firstFetch   |-> FALSE,
           looping      |-> start1 < total1 ]

\* browseFolder, from the value the awaited getFolderListing returned
browseDecode(resp) ==
    LET data == unwrapBrowse(resp) IN
    IF data = << >> THEN [folderName |-> "", entries |-> << >>]
    ELSE
      LET d        == data[1]
          results  == OrElse(Get(d, "results"), << >>)
          colTypes == OrElse(Get(d, "colTypes"), << >>)
      IN [ folderName |-> OrElse(Get(d, "name"), ""),
           entries    |-> [i \in 1..Len(results) |-> browseEntry(results[i], colTypes)] ]

-----------------------------------------------------------------------------
(* Requests *)

userAgent == "Mozilla/5.0 (Macintosh; Intel Mac OS X 10_15_7) AppleWebKit/537.36"

\* { ...a, ...b } on objects (functions on their keys)
Spread(a, b) ==
    [k \in (DOMAIN a) \cup (DOMAIN b) |-> IF k \in DOMAIN b THEN b[k] ELSE a[k]]

\* mutant: the default headers win over the headers of the caller
requestInit_defaultsWin(opts, jar) ==
    Spread(opts,
           [ redirect |-> "manual",
             headers  |-> Spread(OrElse(Get(opts, "headers"), << >>),
                                 ("User-Agent" :> userAgent) @@
                                 ("Accept" :> "*/*") @@
                                 ("Cookie" :> getCookieHeader(jar))) ])

\* the second argument fetch() passes to the transport
requestInit(opts, jar) ==
    Spread(opts,
           [ redirect |-> "manual",
             headers  |-> Spread(("User-Agent" :> userAgent) @@
                                 ("Accept" :> "*/*") @@
                                 ("Cookie" :> getCookieHeader(jar)),
                                 OrElse(Get(opts, "headers"), << >>)) ])

\* the HTTP method the transport uses for a request
Method(req) == OrElse(Get(req.init, "method"), "GET")

\* the options getFolderListing passes to fetch
listingOptions(folderId, start, end) ==
    [ method  |-> "POST",
      headers |-> ("Content-Type" :> "application/json; charset=utf-8") @@
                  ("Accept" :> "application/json") @@
                  ("X-Requested-With" :> "XMLHttpRequest"),
      body    |-> [ repoName      |-> config.repoName,
                    folderId      |-> folderId,
                    getNewListing |-> TRUE,
                    start         |-> start,
                    end           |-> end,
                    sortColumn    |-> "name",
                    sortAscending |-> TRUE ] ]

-----------------------------------------------------------------------------
(* The legacy script (src/arcadia-files.ts): its own WebLinkClient and     *)
(* getEntryType, with its constants standing for the same installation as  *)
(* `config`                                                                *)

\* const BASE_URL, const REPO, and the host written out in resolveUrl
legacyBaseUrl == <<"h", "t", "t", "p", "s", ":", "/", "/", "l", "f", ".", "g", "o", "v", "/", "W", "e", "b", "L", "i", "n", "k">>
legacyRepo    == <<"R", "e", "p", "o">>
legacyHost    == <<"h", "t", "t", "p", "s", ":", "/", "/", "l", "f", ".", "g", "o", "v">>
sLegacyLogin  == <<"/", "L", "o", "g", "i", "n", ".", "a", "s", "p", "x", "?", "d", "b", "i", "d", "=", "0", "&", "r", "e", "p", "o", "=">>

legacyResolveUrl(u) ==
    IF StartsWith(u, sHttp) THEN u
    ELSE IF StartsWith(u, sSlash) THEN legacyHost \o u
    ELSE legacyBaseUrl \o sSlash \o u

legacyRootUrl    == legacyBaseUrl \o sSlash
legacyLoginUrl   == legacyBaseUrl \o sLegacyLogin \o legacyRepo
legacyListingUrl == legacyBaseUrl \o sListingPath

\* the second argument the legacy fetch() passes to the transport
legacyRequestInit(opts, jar) ==
    Spread(opts,
           [ redirect |-> "manual",
             headers  |-> Spread(("User-Agent" :> userAgent) @@
                                 ("Accept" :> "*/*") @@
                                 ("Cookie" :> getCookieHeader(jar)),
                                 OrElse(Get(opts, "headers"), << >>)) ])

\* the options the legacy getFolderListing passes to fetch
legacyListingOptions(folderId, start, end) ==
    [ method  |-> "POST",
      headers |-> ("Content-Type" :> "application/json; charset=utf-8") @@
                  ("Accept" :> "application/json") @@
                  ("X-Requested-With" :> "XMLHttpRequest"),
      body    |-> [ repoName      |-> legacyRepo,
                    folderId      |-> folderId,
                    getNewListing |-> TRUE,
                    start         |-> start,
                    end           |-> end,
                    sortColumn    |-> "name",
                    sortAscending |-> TRUE ] ]

\* the table of the legacy getEntryType: 0, 1 and 2 only
legacyTypes(typeNum) ==
    CASE typeNum = 0 -> "Folder"
      [] typeNum = 1 -> "Document"
      [] typeNum = 2 -> "Shortcut"

legacyGetEntryType(typeNum) ==
    IF typeNum \in {0, 1, 2} THEN legacyTypes(typeNum)
    ELSE "Unknown(" \o ToString(typeNum) \o ")"

\* the entry the legacy getAllEntries pushes for one result row
legacyAllEntry(res, colTypes) ==
    [ id               |-> res.entryId,
      name             |-> res.name,
      type             |-> legacyGetEntryType(res.type),
      pageCount        |-> column(res, findIndex(colTypes, "PageCount")),
      template         |-> column(res, findIndex(colTypes, "TemplateName")),
      creationDate     |-> column(res, findIndex(colTypes, "CreationDate")),
      modificationDate |-> column(res, findIndex(colTypes, "LastModified")) ]

\* one iteration of the do-while loop of the legacy getAllEntries
legacyAllEntriesStep(l, resp) ==
    LET data == IF resp = << >> THEN << >>
                ELSE IF OrElse(Get(resp[1], "data"), << >>) # << >>
                THEN OrElse(Get(resp[1], "data"), << >>)
                ELSE OrElse(Get(resp[1], "d"), << >>)
    IN
    IF data = << >> THEN [l EXCEPT !.looping = FALSE]
    ELSE
      LET d        == data[1]
          name1    == IF l.firstFetch THEN OrElse(Get(d, "name"), "") ELSE l.folderName
          total1   == IF l.firstFetch THEN OrElse(Get(d, "totalEntries"), 0)
                      ELSE l.totalEntries
          results  == OrElse(Get(d, "results"), << >>)
          colTypes == OrElse(Get(d, "colTypes"), << >>)
          start1   == l.start + 500
      IN [ entries      |-> l.entries \o
                              [i \in 1..Len(results) |-> legacyAllEntry(results[i], colTypes)],
           folderName   |-> name1,
           start        |-> start1,
           totalEntries |-> total1,
           firstFetch   |-> FALSE,
           looping      |-> start1 < total1 ]

-----------------------------------------------------------------------------
(* The backend: the responses the transport may deliver *)

RedirectStatuses == {301, 302, 303, 307, 308}

NoBody == [parses |-> FALSE, value |-> << >>]

Resp(status, location, setCookie, body) ==
    [ failed |-> FALSE, status |-> status, location |-> location,
      setCookie |-> setCookie, body |-> body ]

\* the transport rejects (network error): the awaited fetch() throws
Failure ==
    [ failed |-> TRUE, status |-> 0, location |-> << >>,
      setCookie |-> << >>, body |-> NoBody ]

\* JSON scalars of a row's data array: a number or a string
Num(n) == [number |-> n]
Str(s) == [string |-> s]

\* result rows
rowFolder   == [entryId |-> 11, name |-> "Agendas",  type |-> 0,
                data |-> <<Str(""), Str("CC - Agendas"), Str("1/2/2020"), Str("3/4/2021")>>]
rowDocument == [entryId |-> 12, name |-> "Minutes",  type |-> 1,
                data |-> <<Num(7), Str("CC - Minutes")>>]
rowShortcut == [entryId |-> 13, name |-> "Link",     type |-> 2,
                data |-> <<Str("CC - Agendas"), Num(7)>>]
rowAltDoc   == [entryId |-> 14, name |-> "Scan",     type |-> -2]
rowUnknown  == [entryId |-> 15, name |-> "Odd",      type |-> 99,
                data |-> <<Str("CC - Agendas"), Num(7)>>]

colsA == << [name |-> "PageCount"], [name |-> "TemplateName"],
            [name |-> "CreationDate"], [name |-> "LastModified"] >>
colsB == << [name |-> "TemplateName"], [name |-> "PageCount"] >>

\* payloads of the listing endpoint; the backend serves a window of end - start
\* rows with at most that many rows (here at most two)
payloadEmpty == [name |-> "Clerk", totalEntries |-> 0, results |-> << >>,
                 colTypes |-> colsA]
payloadBig   == [name |-> "Clerk", totalEntries |-> 1200,
                 results |-> <<rowFolder, rowDocument>>, colTypes |-> colsA]
payloadOther == [name |-> "Other", totalEntries |-> 501,
                 results |-> <<rowShortcut, rowAltDoc>>, colTypes |-> colsB]
payloadBare  == [totalEntries |-> 5000, results |-> <<rowUnknown>>]
payloadZero  == [name |-> "Clerk", totalEntries |-> 0,
                 results |-> <<rowFolder>>, colTypes |-> colsA]
\* the payload {}: an object without any key
payloadNone  == << >>

\* JSON bodies of the listing endpoint
Envelopes ==
    { [data |-> <<payloadEmpty>>], [d |-> <<payloadEmpty>>],
      [data |-> <<payloadBig>>],   [d |-> <<payloadBig>>],
      [data |-> <<payloadOther>>],
      [data |-> <<payloadBare>>],
      [data |-> <<payloadZero>>],
      [data |-> <<payloadNone>>],
      [data |-> <<payloadBig>>, d |-> <<payloadOther>>],
      [data |-> << >>, d |-> <<payloadOther>>],
      [data |-> << >>],
      << >> }

Json(v) == [parses |-> TRUE, value |-> v]

\* answers to the POST of the listing endpoint
ListingResponses ==
    { Resp(200, << >>, << >>, Json(<<e>>)) : e \in Envelopes } \cup
    { Resp(200, << >>, << >>, Json(<< >>)),
      Resp(200, << >>, << >>, NoBody),
      Resp(500, << >>, << >>, Json(<<[data |-> <<payloadBig>>]>>)),
      Resp(303, <<locOther>>, <<scB2>>, NoBody),
      Failure }

\* answers to the GET of a page
PageResponses ==
    { Resp(200, << >>, << >>, NoBody),
      Resp(200, << >>, <<scJunk, scB2>>, NoBody),
      Resp(301, <<locOther>>, <<scA1>>, NoBody),
      Resp(302, <<locOther>>, <<scB2>>, NoBody),
      Resp(303, <<locWelcome>>, << >>, NoBody),
      Resp(307, <<locAbsolute>>, <<scA2Path>>, NoBody),
      Resp(308, <<locOther>>, << >>, NoBody),
      Resp(302, << >>, <<scA1>>, NoBody),
      Resp(302, <<locEmpty>>, << >>, NoBody),
      Resp(300, <<locOther>>, << >>, NoBody),
      Failure }

Responses(req) == IF Method(req) = "POST" THEN ListingResponses ELSE PageResponses

\* response.ok
ok(r) == r.status >= 200 /\ r.status <= 299

\* folder ids and urls the caller passes
FolderIds == {874714}
FetchUrls == {locWelcome}

\* the cookie a Set-Cookie line of the backend sets, << >> for none
Sets(line) ==
    CASE line = scA1     -> <<[name |-> <<"A">>, value |-> <<"1">>]>>
      [] line = scB2     -> <<[name |-> <<"B">>, value |-> <<"2">>]>>
      [] line = scA2Path -> <<[name |-> <<"A">>, value |-> <<"2">>]>>
      [] OTHER           -> << >>

\* the cookies in force after the lines `lines`, given those in force before
RECURSIVE InForce(_, _)
InForce(before, lines) ==
    IF lines = << >> THEN before
    ELSE LET c == Sets(Head(lines)) IN
         InForce(IF c = << >> THEN before
                 ELSE {x \in before : x.name # c[1].name} \cup {c[1]},
                 Tail(lines))

\* the cookies in force after the responses of the exchanges `exchanges`
RECURSIVE Remember(_, _)
Remember(before, exchanges) ==
    IF exchanges = << >> THEN before
    ELSE Remember(InForce(before, Head(exchanges).resp.setCookie), Tail(exchanges))

-----------------------------------------------------------------------------
(* The state machine *)

Init ==
    /\ cookies = << >>
    /\ log = << >>
    /\ calls = 0
    /\ op = "none"
    /\ args = << >>
    /\ pc = "idle"
    /\ phase = 0
    /\ url = << >>
    /\ options = << >>
    /\ response = Failure
    /\ listing = << >>
    /\ loc = allLocals0
    /\ outcome = "none"
    /\ result = << >>
    /\ earlier = {}
    /\ jar0 = << >>

\* the caller invokes an operation: the client is idle or the previous
\* operation has completed; the frames of the previous operation are gone
invoke(name, a) ==
    /\ pc \in {"idle", "done"}
    /\ calls < MaxCalls
    /\ calls' = calls + 1
    /\ op' = name
    /\ args' = a
    /\ outcome' = "none"
    /\ result' = << >>
    /\ log' = << >>
    /\ earlier' = Remember(earlier, log)
    /\ jar0' = cookies
    /\ response' = Failure
    /\ listing' = << >>
    /\ loc' = allLocals0
    /\ pc' = "fetch"
    /\ UNCHANGED cookies

\* client.fetch(u) with no options
callFetch ==
    \E u \in FetchUrls :
      /\ invoke("fetch", [url |-> u])
      /\ url' = u
      /\ options' = << >>
      /\ phase' = 0

\* mutant: initSession starts from an empty jar
callInitSession_freshJar ==
    /\ pc \in {"idle", "done"}
    /\ calls < MaxCalls
    /\ calls' = calls + 1
    /\ op' = "initSession"
    /\ args' = << >>
    /\ outcome' = "none"
    /\ result' = << >>
    /\ log' = << >>
    /\ earlier' = Remember(earlier, log)
    /\ jar0' = cookies
    /\ response' = Failure
    /\ listing' = << >>
    /\ loc' = allLocals0
    /\ pc' = "fetch"
    /\ cookies' = << >>
    /\ url' = rootUrl
    /\ options' = << >>
    /\ phase' = 1

\* mutant: initSession starts with the login page
callInitSession_loginFirst ==
    /\ invoke("initSession", << >>)
    /\ url' = loginUrl
    /\ options' = << >>
    /\ phase' = 1

\* initSession() up to its first await: fetch(`${baseUrl}/`)
callInitSession ==
    /\ invoke("initSession", << >>)
    /\ url' = rootUrl
    /\ options' = << >>
    /\ phase' = 1

\* getFolderListing(folderId) with the default window, up to its await
callGetFolderListing ==
    \E f \in FolderIds :
      /\ invoke("getFolderListing", [folderId |-> f, start |-> 0, end |-> defaultEnd])
      /\ url' = listingUrl
      /\ options' = listingOptions(f, 0, defaultEnd)
      /\ phase' = 0

\* mutant: getAllEntries opens the session first
callGetAllEntries_autoInit ==
    \E f \in FolderIds :
      /\ invoke("getAllEntries", [folderId |-> f])
      /\ url' = rootUrl
      /\ options' = << >>
      /\ phase' = 0

\* getAllEntries(folderId) up to the first await of its loop
callGetAllEntries ==
    \E f \in FolderIds :
      /\ invoke("getAllEntries", [folderId |-> f])
      /\ url' = listingUrl
      /\ options' = listingOptions(f, allLocals0.start, allLocals0.start + pageSize)
      /\ phase' = 0

\* browseFolder(folderId) up to its await
callBrowseFolder ==
    \E f \in FolderIds :
      /\ invoke("browseFolder", [folderId |-> f])
      /\ url' = listingUrl
      /\ options' = listingOptions(f, 0, browseEnd)
      /\ phase' = 0

\* getRootFolder(): browseFolder(1)
callGetRootFolder ==
    /\ invoke("browseFolder", [folderId |-> rootFolderId])
    /\ url' = listingUrl
    /\ options' = listingOptions(rootFolderId, 0, browseEnd)
    /\ phase' = 0

\* mutant: 303 is missing from the list of statuses
followsRedirect_no303(r) ==
    /\ r.location # << >>
    /\ r.location[1] # << >>
    /\ r.status \in RedirectStatuses \ {303}

\* location && [301, 302, 303, 307, 308].includes(response.status)
followsRedirect(r) ==
    /\ r.location # << >>
    /\ r.location[1] # << >>
    /\ r.status \in RedirectStatuses

\* mutant: after a 303 the follow-up is a plain GET, as a browser would send
fetch_seeOther ==
    /\ pc = "fetch"
    /\ Len(log) < MaxRequests
    /\ LET req == [url |-> resolveUrl(url), init |-> requestInit(options, cookies)] IN
       \E r \in Responses(req) :
         /\ log' = Append(log, [req |-> req, resp |-> r])
         /\ IF r.failed
            THEN /\ pc' = "done"
                 /\ outcome' = "raised"
                 /\ UNCHANGED <<cookies, url, response, options>>
            ELSE /\ cookies' = parseCookies(cookies, r.setCookie)
                 /\ IF followsRedirect(r)
                    THEN /\ url' = r.location[1]
                         /\ options' = IF r.status = 303 THEN << >> ELSE options
                         /\ UNCHANGED <<pc, response>>
                    ELSE /\ response' = r
                         /\ pc' = "fetched"
                         /\ UNCHANGED <<url, options>>
                 /\ UNCHANGED outcome
    /\ UNCHANGED <<calls, op, args, phase, listing, loc, result, earlier, jar0>>

\* mutant: at most two redirects are followed, the third is returned
fetch_limited ==
    /\ pc = "fetch"
    /\ Len(log) < MaxRequests
    /\ LET req == [url |-> resolveUrl(url), init |-> requestInit(options, cookies)] IN
       \E r \in Responses(req) :
         /\ log' = Append(log, [req |-> req, resp |-> r])
         /\ IF r.failed
            THEN /\ pc' = "done"
                 /\ outcome' = "raised"
                 /\ UNCHANGED <<cookies, url, response>>
            ELSE /\ cookies' = parseCookies(cookies, r.setCookie)
                 /\ IF followsRedirect(r) /\ Len(log) < 2
                    THEN /\ url' = r.location[1]
                         /\ UNCHANGED <<pc, response>>
                    ELSE /\ response' = r
                         /\ pc' = "fetched"
                         /\ UNCHANGED url
                 /\ UNCHANGED outcome
    /\ UNCHANGED <<calls, op, args, phase, options, listing, loc, result, earlier, jar0>>

\* one activation of fetch(url, options): the request, the response, the
\* cookies, and either the recursive call or the return
fetch ==
    /\ pc = "fetch"
    /\ Len(log) < MaxRequests
    /\ LET req == [url |-> resolveUrl(url), init |-> requestInit(options, cookies)] IN
       \E r \in Responses(req) :
         /\ log' = Append(log, [req |-> req, resp |-> r])
         /\ IF r.failed
            THEN \* the rejection propagates through every awaiting caller
                 /\ pc' = "done"
                 /\ outcome' = "raised"
                 /\ UNCHANGED <<cookies, url, response>>
            ELSE /\ cookies' = parseCookies(cookies, r.setCookie)
                 /\ IF followsRedirect(r)
                    THEN /\ url' = r.location[1]
                         /\ UNCHANGED <<pc, response>>
                    ELSE /\ response' = r
                         /\ pc' = "fetched"
                         /\ UNCHANGED url
                 /\ UNCHANGED outcome
    /\ UNCHANGED <<calls, op, args, phase, options, listing, loc, result, earlier, jar0>>

\* the caller's await of client.fetch resolves
fetchReturn ==
    /\ op = "fetch"
    /\ pc = "fetched"
    /\ pc' = "done"
    /\ outcome' = "returned"
    /\ result' = response
    /\ UNCHANGED <<cookies, log, calls, op, args, phase, url, options, response,
                   listing, loc, earlier, jar0>>

\* initSession after its first await: fetch of the login page
initSessionLogin ==
    /\ op = "initSession"
    /\ pc = "fetched"
    /\ phase = 1
    /\ phase' = 2
    /\ url' = loginUrl
    /\ options' = << >>
    /\ pc' = "fetch"
    /\ UNCHANGED <<cookies, log, calls, op, args, response, listing, loc,
                   outcome, result, earlier, jar0>>

\* mutant: one cookie is not enough
sessionOk_twoCookies(jar) == Len(jar) > 1

\* this.cookies.size > 0
sessionOk(jar) == Len(jar) > 0

\* initSession after its second await: return this.cookies.size > 0
initSessionReturn ==
    /\ op = "initSession"
    /\ pc = "fetched"
    /\ phase = 2
    /\ pc' = "done"
    /\ outcome' = "returned"
    /\ result' = sessionOk(cookies)
    /\ UNCHANGED <<cookies, log, calls, op, args, phase, url, options, response,
                   listing, loc, earlier, jar0>>

\* mutant: the body is parsed whatever the status
listingValue_anyStatus(r) ==
    IF ~r.body.parses THEN << >>
    ELSE r.body.value

\* the value getFolderListing returns for the response fetch returned
listingValue(r) ==
    IF ~ok(r) THEN << >>
    ELSE IF ~r.body.parses THEN << >>
    ELSE r.body.value

\* getFolderListing after its await of fetch
getFolderListingReturn ==
    /\ op \in {"getFolderListing", "getAllEntries", "browseFolder"}
    /\ pc = "fetched"
    /\ listing' = listingValue(response)
    /\ IF op = "getFolderListing"
       THEN /\ pc' = "done"
            /\ outcome' = "returned"
            /\ result' = listing'
       ELSE /\ pc' = "listed"
            /\ UNCHANGED <<outcome, result>>
    /\ UNCHANGED <<cookies, log, calls, op, args, phase, url, options, response,
                   loc, earlier, jar0>>

\* getAllEntries after its await of getFolderListing: one loop iteration,
\* then the next getFolderListing call or the return
getAllEntriesIterate ==
    /\ op = "getAllEntries"
    /\ pc = "listed"
    /\ loc' = allEntriesStep(loc, listing)
    /\ IF loc'.looping
       THEN /\ url' = listingUrl
            /\ options' = listingOptions(args.folderId, loc'.start, loc'.start + pageSize)
            /\ pc' = "fetch"
            /\ UNCHANGED <<outcome, result>>
       ELSE /\ pc' = "done"
            /\ outcome' = "returned"
            /\ result' = [folderName |-> loc'.folderName, entries |-> loc'.entries]
            /\ UNCHANGED <<url, options>>
    /\ UNCHANGED <<cookies, log, calls, op, args, phase, response, listing, earlier, jar0>>

\* browseFolder after its await of getFolderListing
browseFolderReturn ==
    /\ op = "browseFolder"
    /\ pc = "listed"
    /\ pc' = "done"
    /\ outcome' = "returned"
    /\ result' = browseDecode(listing)
    /\ UNCHANGED <<cookies, log, calls, op, args, phase, url, options, response,
                   listing, loc, earlier, jar0>>

Next ==
    \/ callFetch
    \/ callInitSession
    \/ callGetFolderListing
    \/ callGetAllEntries
    \/ callBrowseFolder
    \/ callGetRootFolder
    \/ fetch
    \/ fetchReturn
    \/ initSessionLogin
    \/ initSessionReturn
    \/ getFolderListingReturn
    \/ getAllEntriesIterate
    \/ browseFolderReturn

Spec == Init /\ [][Next]_vars

-----------------------------------------------------------------------------
(* Reading the log: what the claims below speak about *)

\* a redirect the claims speak of: a redirect status and a Location header
\* that names a location
IsRedirect(r) ==
    /\ ~r.failed
    /\ r.status \in {301, 302, 303, 307, 308}
    /\ r.location # << >>
    /\ r.location[1] # << >>

\* the "name=value" pairs of a Cookie header, split at "; "
RECURSIVE HeaderPairs(_)
HeaderPairs(h) ==
    IF h = << >> THEN {}
    ELSE IF \E i \in 1..(Len(h) - 1) : h[i] = ";" /\ h[i + 1] = " "
    THEN LET i == CHOOSE k \in 1..(Len(h) - 1) :
                    /\ h[k] = ";" /\ h[k + 1] = " "
                    /\ \A j \in 1..(k - 1) : ~(h[j] = ";" /\ h[j + 1] = " ")
         IN {SubSeq(h, 1, i - 1)} \cup HeaderPairs(SubSeq(h, i + 2, Len(h)))
    ELSE {h}

\* the Cookie header of the request of an exchange
CookieOf(exchange) == exchange.req.init.headers["Cookie"]

\* where the backend means a Location value to lead
Target(location) ==
    CASE location = locOther    -> <<"h", "t", "t", "p", "s", ":", "/", "/", "l", "f", ".", "g", "o", "v", "/", "O", "t", "h", "e", "r", ".", "a", "s", "p", "x">>
      [] location = locWelcome  -> <<"h", "t", "t", "p", "s", ":", "/", "/", "l", "f", ".", "g", "o", "v", "/", "W", "e", "b", "L", "i", "n", "k", "/", "W", "e", "l", "c", "o", "m", "e", ".", "a", "s", "p", "x">>
      [] location = locAbsolute -> <<"h", "t", "t", "p", ":", "/", "/", "s", "s", "o", ".", "g", "o", "v", "/", "i", "n">>

\* the indices of the exchanges that end a redirect chain with a response
FinalIndices == {i \in 1..Len(log) : ~log[i].resp.failed /\ ~IsRedirect(log[i].resp)}

\* the number of chains completed before exchange i
ChainsBefore(i) == Cardinality({j \in FinalIndices : j < i})

\* the payload a response delivers to the decoder, << >> for none
PayloadOf(r) ==
    IF r.failed \/ r.status < 200 \/ r.status > 299 \/ ~r.body.parses
       \/ r.body.value = << >>
    THEN << >>
    ELSE LET env == r.body.value[1] IN
         IF "data" \in DOMAIN env /\ env.data # << >> THEN env.data
         ELSE IF "d" \in DOMAIN env THEN env.d
         ELSE << >>

RowsOf(p) == IF "results" \in DOMAIN p THEN p.results ELSE << >>

\* the result rows of the pages delivered by exchanges from..Len(log), in order
RECURSIVE RowsFrom(_)
RowsFrom(from) ==
    IF from > Len(log) THEN << >>
    ELSE (IF from \in FinalIndices /\ PayloadOf(log[from].resp) # << >>
          THEN RowsOf(PayloadOf(log[from].resp)[1])
          ELSE << >>) \o RowsFrom(from + 1)

\* the payload of the first page, << >> when the first chain delivered none
FirstPage ==
    PayloadOf(log[CHOOSE i \in FinalIndices : \A j \in FinalIndices : i <= j].resp)

\* every chain ended with a page
AllDelivered == \A i \in FinalIndices : PayloadOf(log[i].resp) # << >>

\* the total a page reports
ReportedTotal(p) == IF "totalEntries" \in DOMAIN p THEN p.totalEntries ELSE 0

Returned(name) == op = name /\ pc = "done" /\ outcome = "returned"

-----------------------------------------------------------------------------
(* C1: every request carries, as name=value pairs joined with "; ", every  *)
(* cookie that an earlier response on this client has set (with the value  *)
(* set last).                                                              *)

CookieJarAccumulation ==
    \A i \in 1..Len(log) :
      LET sent == HeaderPairs(CookieOf(log[i])) IN
      \A c \in Remember(earlier, SubSeq(log, 1, i - 1)) :
        (c.name \o <<"=">> \o c.value) \in sent

\* responses setting A=1 and then B=2: the third request carries both
CookieJarAccumulationWitness ==
    /\ Len(log) = 3
    /\ log[1].resp.setCookie = <<scA1>>
    /\ log[2].resp.setCookie = <<scB2>>
    /\ CookieOf(log[3]) = <<"A", "=", "1", ";", " ", "B", "=", "2">>

-----------------------------------------------------------------------------
(* C2: the jar is empty at construction and no step of any operation ever  *)
(* removes a cookie name from it.                                          *)

JarOnlyGrows ==
    /\ cookies = << >>
    /\ [][MapKeys(cookies) \subseteq MapKeys(cookies')]_vars

\* a second operation has run on a jar that already held two cookies
JarOnlyGrowsWitness ==
    /\ calls = 2
    /\ pc = "done"
    /\ Len(jar0) = 2
    /\ Len(log) > 0
    /\ Len(cookies) = 2

-----------------------------------------------------------------------------
(* C3: a response with a redirect status and a Location is followed by a   *)
(* request to the resolved location ("/Other.aspx" against the origin of   *)
(* the base URL), and that request carries the cookies the redirecting     *)
(* response set.                                                           *)

RedirectChasing ==
    \A i \in 1..Len(log) :
      IsRedirect(log[i].resp) =>
        IF i < Len(log)
        THEN /\ log[i + 1].req.url = Target(log[i].resp.location[1])
             /\ \A c \in InForce({}, log[i].resp.setCookie) :
                  (c.name \o <<"=">> \o c.value) \in HeaderPairs(CookieOf(log[i + 1]))
        ELSE \* the follow-up is the call in progress
             /\ pc = "fetch"
             /\ resolveUrl(url) = Target(log[i].resp.location[1])
             /\ \A c \in InForce({}, log[i].resp.setCookie) :
                  (c.name \o <<"=">> \o c.value) \in HeaderPairs(getCookieHeader(cookies))

\* 302 with Location: /Other.aspx and Set-Cookie: B=2, then the follow-up
RedirectChasingWitness ==
    /\ Len(log) >= 2
    /\ jar0 = << >>
    /\ log[1].resp.status = 302
    /\ log[1].resp.location = <<locOther>>
    /\ log[1].resp.setCookie = <<scB2>>
    /\ log[2].req.url = <<"h", "t", "t", "p", "s", ":", "/", "/", "l", "f", ".", "g", "o", "v", "/", "O", "t", "h", "e", "r", ".", "a", "s", "p", "x">>
    /\ CookieOf(log[2]) = <<"B", "=", "2">>

-----------------------------------------------------------------------------
(* C4: fetch returns the last response received, which is the first of its *)
(* chain that is no redirect (a redirect status with a Location); a        *)
(* redirect status without a Location is returned as it is, with no        *)
(* follow-up request.                                                      *)

FetchReturnsFirstNonRedirect ==
    /\ pc = "fetched" =>
         /\ response = log[Len(log)].resp
         /\ ~IsRedirect(response)
    /\ Returned("fetch") =>
         /\ result = log[Len(log)].resp
         /\ ~IsRedirect(result)
         /\ \A i \in 1..(Len(log) - 1) : IsRedirect(log[i].resp)
    /\ \A i \in 1..Len(log) :
         (/\ ~log[i].resp.failed
          /\ log[i].resp.status \in {301, 302, 303, 307, 308}
          /\ log[i].resp.location = << >>)
         => (op = "fetch" => (i = Len(log) /\ pc \in {"fetched", "done"}))

\* a chain of two redirects ends with a 302 that has no Location
FetchReturnsFirstNonRedirectWitness ==
    /\ Returned("fetch")
    /\ Len(log) = 3
    /\ result.status = 302
    /\ result.location = << >>

-----------------------------------------------------------------------------
(* C5: getFolderListing returns null when the final response is not 2xx or *)
(* its body is no JSON, and never raises, whatever the transport does.     *)

ListingNeverRaises ==
    (op = "getFolderListing" /\ pc = "done") =>
      /\ outcome = "returned"
      /\ LET r == log[Len(log)].resp IN
         (r.status < 200 \/ r.status > 299 \/ ~r.body.parses) => result = << >>

-----------------------------------------------------------------------------
(* C6: with a first page that reports T > 0 and every page delivered,      *)
(* getAllEntries issues exactly ceil(T/500) listing requests, for the      *)
(* windows (0,500), (500,1000), ... in this order, and returns the entries *)
(* of all pages.                                                           *)

PaginatesInWindows ==
    /\ op = "getAllEntries" =>
         \A i \in 1..Len(log) :
           /\ log[i].req.init.body.start = 500 * ChainsBefore(i)
           /\ log[i].req.init.body.end = 500 * ChainsBefore(i) + 500
    /\ (/\ Returned("getAllEntries")
        /\ AllDelivered
        /\ ReportedTotal(FirstPage[1]) > 0)
       => /\ Cardinality(FinalIndices) = (ReportedTotal(FirstPage[1]) + 499) \div 500
          /\ [i \in 1..Len(result.entries) |-> result.entries[i].id]
               = [i \in 1..Len(RowsFrom(1)) |-> RowsFrom(1)[i].entryId]

\* T = 1200: three requests with start 0, 500 and 1000
PaginatesInWindowsWitness ==
    /\ Returned("getAllEntries")
    /\ AllDelivered
    /\ ReportedTotal(FirstPage[1]) = 1200
    /\ Len(log) = 3
    /\ log[3].req.init.body.start = 1000
    /\ Len(result.entries) = 5

-----------------------------------------------------------------------------
(* C7: a first page with totalEntries = 0 and no results: getAllEntries    *)
(* issues one listing request and returns the page's folder name with no   *)
(* entries.                                                                *)

EmptyFolderOnePage ==
    (/\ Returned("getAllEntries")
     /\ FirstPage # << >>
     /\ ReportedTotal(FirstPage[1]) = 0
     /\ RowsOf(FirstPage[1]) = << >>)
    => /\ Cardinality(FinalIndices) = 1
       /\ result = [ folderName |-> IF "name" \in DOMAIN FirstPage[1]
                                    THEN FirstPage[1].name ELSE "",
                     entries |-> << >> ]

EmptyFolderOnePageWitness ==
    /\ Returned("getAllEntries")
    /\ Len(log) = 1
    /\ log[1].resp.body = Json(<<[data |-> <<payloadEmpty>>]>>)
    /\ result = [folderName |-> "Clerk", entries |-> << >>]

-----------------------------------------------------------------------------
(* C8: browseFolder issues one listing request, for the window start = 0,  *)
(* end = 100, whatever total the backend reports, and returns the rows of  *)
(* that one page: at most 100 entries.                                     *)

BrowseOnePage ==
    /\ op = "browseFolder" =>
         /\ Cardinality(FinalIndices) <= 1
         /\ \A i \in 1..Len(log) :
              /\ log[i].req.init.body.start = 0
              /\ log[i].req.init.body.end = 100
    /\ Returned("browseFolder") =>
         /\ Cardinality(FinalIndices) = 1
         /\ Len(result.entries) = Len(RowsFrom(1))
         /\ Len(result.entries) <= 100

\* the page reports 5000 entries
BrowseOnePageWitness ==
    /\ Returned("browseFolder")
    /\ FirstPage # << >>
    /\ ReportedTotal(FirstPage[1]) = 5000
    /\ Len(log) = 1
    /\ Len(result.entries) = 1

-----------------------------------------------------------------------------
(* Replaying a listing with the other envelope key *)

\* the envelope with its payload under the other key
OtherKey(v) ==
    IF v = << >> THEN v
    ELSE IF DOMAIN v[1] = {"data"} THEN <<[d |-> v[1].data]>>
    ELSE IF DOMAIN v[1] = {"d"} THEN <<[data |-> v[1].d]>>
    ELSE v

\* the values getFolderListing returned for the chains ending at from..Len(log)
RECURSIVE ListingsFrom(_)
ListingsFrom(from) ==
    IF from > Len(log) THEN << >>
    ELSE (IF from \in FinalIndices THEN <<listingValue(log[from].resp)>> ELSE << >>)
         \o ListingsFrom(from + 1)

\* getAllEntries run against the listings `values`
RECURSIVE AllEntriesOf(_, _)
AllEntriesOf(l, values) ==
    IF values = << >> \/ ~l.looping THEN l
    ELSE AllEntriesOf(allEntriesStep(l, Head(values)), Tail(values))

SwapKeys(values) == [i \in 1..Len(values) |-> OtherKey(values[i])]

-----------------------------------------------------------------------------
(* C9: a listing whose payload sits under "d" decodes to the same          *)
(* FolderContents as the listing with the same payload under "data", in    *)
(* browseFolder and in getAllEntries.                                      *)

EnvelopeSymmetry ==
    /\ Returned("browseFolder") => result = browseDecode(OtherKey(listing))
    /\ Returned("getAllEntries") =>
         LET l == AllEntriesOf(allLocals0, SwapKeys(ListingsFrom(1)))
         IN result = [folderName |-> l.folderName, entries |-> l.entries]

\* three pages with their payload under "d" have been decoded
EnvelopeSymmetryWitness ==
    /\ Returned("getAllEntries")
    /\ Len(log) = 3
    /\ \A i \in 1..3 : log[i].resp.body = Json(<<[d |-> <<payloadBig>>]>>)
    /\ Len(result.entries) = 6
    /\ result.folderName = "Clerk"

-----------------------------------------------------------------------------
(* The type labels, by the codes of the result rows above *)

LabelOf(code) ==
    CASE code = 0  -> "Folder"
      [] code = 1  -> "Document"
      [] code = 2  -> "Shortcut"
      [] code = -2 -> "Document"
      [] code = 99 -> "Unknown(99)"

-----------------------------------------------------------------------------
(* C10: every row delivered becomes one entry whose type is the label of   *)
(* the row's code: 0 Folder, 1 Document, 2 Shortcut, -2 Document, any      *)
(* other code n Unknown(n); no row is dropped and no type is a number.     *)

TypesResolved ==
    (Returned("getAllEntries") \/ Returned("browseFolder")) =>
      /\ Len(result.entries) = Len(RowsFrom(1))
      /\ \A i \in 1..Len(result.entries) :
           /\ result.entries[i].type \in STRING
           /\ result.entries[i].type = LabelOf(RowsFrom(1)[i].type)

\* codes 2, -2 and 99 have been decoded in one result
TypesResolvedWitness ==
    /\ Returned("getAllEntries")
    /\ Len(result.entries) = 3
    /\ result.entries[1].type = "Shortcut"
    /\ result.entries[2].type = "Document"
    /\ result.entries[3].type = "Unknown(99)"

-----------------------------------------------------------------------------
(* The columns of the pages delivered *)

\* the columns a page declares
ColsOf(p) == IF "colTypes" \in DOMAIN p THEN p.colTypes ELSE << >>

\* for each row of RowsFrom(from), the columns its own page declares
RECURSIVE ColsFrom(_)
ColsFrom(from) ==
    IF from > Len(log) THEN << >>
    ELSE (IF from \in FinalIndices /\ PayloadOf(log[from].resp) # << >>
          THEN LET p == PayloadOf(log[from].resp)[1] IN
               [i \in 1..Len(RowsOf(p)) |-> ColsOf(p)]
          ELSE << >>) \o ColsFrom(from + 1)

\* the cell of a row under the column called `name`: << >> when the columns
\* `cols` declare no such column or the row has no cell there
Cell(row, cols, name) ==
    LET at == {k \in 1..Len(cols) : cols[k].name = name} IN
    IF at = {} \/ "data" \notin DOMAIN row THEN << >>
    ELSE LET k == CHOOSE k \in at : \A j \in at : k <= j IN
         IF k > Len(row.data) THEN << >> ELSE <<row.data[k]>>

-----------------------------------------------------------------------------
(* C11: every decoded row has as pageCount, template, creationDate and     *)
(* modificationDate the cell of its data array under the column its page   *)
(* declares as PageCount, TemplateName, CreationDate and LastModified, in  *)
(* whatever order the columns are declared (columns TemplateName,          *)
(* PageCount with cells "CC - Agendas", 7 give template "CC - Agendas" and *)
(* pageCount 7); the field is absent when the column is not declared or    *)
(* the row has no cell there.                                              *)

ColumnsByName ==
    (Returned("getAllEntries") \/ Returned("browseFolder")) =>
      LET rows    == RowsFrom(1)
          columns == ColsFrom(1)
      IN
      /\ Len(result.entries) = Len(rows)
      /\ \A i \in 1..Len(result.entries) :
           LET e    == result.entries[i]
               row  == rows[i]
               cols == columns[i]
           IN /\ e.pageCount = Cell(row, cols, "PageCount")
              /\ e.template = Cell(row, cols, "TemplateName")
              /\ e.creationDate = Cell(row, cols, "CreationDate")
              /\ e.modificationDate = Cell(row, cols, "LastModified")
              /\ (row = rowShortcut /\ cols = colsB) =>
                   /\ e.template = <<Str("CC - Agendas")>>
                   /\ e.pageCount = <<Num(7)>>

\* columns TemplateName, PageCount: a row with both cells and a row with no
\* data array have been decoded by browseFolder
ColumnsByNameWitness ==
    /\ Returned("browseFolder")
    /\ log[Len(log)].resp.body = Json(<<[data |-> <<payloadOther>>]>>)
    /\ Len(result.entries) = 2
    /\ result.entries[1].template = <<Str("CC - Agendas")>>
    /\ result.entries[1].pageCount = <<Num(7)>>
    /\ result.entries[1].creationDate = << >>
    /\ result.entries[2].template = << >>
    /\ result.entries[2].pageCount = << >>

-----------------------------------------------------------------------------
(* C12: getAllEntries decodes the rows of every page with the columns that *)
(* page declares: a row of a later page whose columns differ from those of *)
(* the first page has its four fields read under its own page's columns.   *)

ColumnsPerPage ==
    Returned("getAllEntries") =>
      LET rows    == RowsFrom(1)
          columns == ColsFrom(1)
      IN
      \A i \in 1..Len(result.entries) :
        LET e    == result.entries[i]
            row  == rows[i]
            own  == columns[i]
        IN own # columns[1] =>
             /\ e.pageCount = Cell(row, own, "PageCount")
             /\ e.template = Cell(row, own, "TemplateName")
             /\ e.creationDate = Cell(row, own, "CreationDate")
             /\ e.modificationDate = Cell(row, own, "LastModified")

\* the first page declares PageCount first, the second TemplateName first
ColumnsPerPageWitness ==
    /\ Returned("getAllEntries")
    /\ Len(log) = 3
    /\ log[1].resp.body = Json(<<[data |-> <<payloadBig>>]>>)
    /\ log[2].resp.body = Json(<<[data |-> <<payloadOther>>]>>)
    /\ result.entries[2].pageCount = <<Num(7)>>
    /\ result.entries[2].template = <<Str("CC - Minutes")>>
    /\ result.entries[3].pageCount = <<Num(7)>>
    /\ result.entries[3].template = <<Str("CC - Agendas")>>

-----------------------------------------------------------------------------
(* C13: in getAllEntries the folder name returned and the total that       *)
(* decides whether another page is requested are those of the first page,  *)
(* whatever name or total later pages report.                              *)

TotalsFromFirstPage ==
    (op = "getAllEntries" /\ FinalIndices # {} /\ FirstPage # << >>) =>
      LET first == FirstPage[1]
          total == ReportedTotal(first)
      IN /\ \A i \in 1..Len(log) :
              ChainsBefore(i) > 0 => 500 * ChainsBefore(i) < total
         /\ Returned("getAllEntries") =>
              /\ result.folderName = (IF "name" \in DOMAIN first THEN first.name ELSE "")
              /\ AllDelivered => 500 * Cardinality(FinalIndices) >= total

\* the first page reports Clerk with 1200 entries, the second Other with 501
TotalsFromFirstPageWitness ==
    /\ Returned("getAllEntries")
    /\ Len(log) = 3
    /\ log[1].resp.body = Json(<<[data |-> <<payloadBig>>]>>)
    /\ log[2].resp.body = Json(<<[data |-> <<payloadOther>>]>>)
    /\ log[3].resp.body = Json(<<[data |-> <<payloadEmpty>>]>>)
    /\ log[3].req.init.body.start = 1000
    /\ result.folderName = "Clerk"

-----------------------------------------------------------------------------
(* C14: when a listing request of getAllEntries ends with no payload (a    *)
(* response that is not 2xx, a body that is no JSON or is null, an         *)
(* envelope with neither data nor d), no further request is issued and     *)
(* getAllEntries returns, without raising, one entry for each row of the   *)
(* pages before it, in order.                                              *)

StopsAtMissingPayload ==
    op = "getAllEntries" =>
      \A i \in FinalIndices :
        PayloadOf(log[i].resp) = << >> =>
          /\ i = Len(log)
          /\ pc \in {"fetched", "listed", "done"}
          /\ pc = "done" =>
               /\ outcome = "returned"
               /\ [k \in 1..Len(result.entries) |-> result.entries[k].id]
                    = [k \in 1..Len(RowsFrom(1)) |-> RowsFrom(1)[k].entryId]

\* the first page reports 1200 entries, the second request is answered 500
StopsAtMissingPayloadWitness ==
    /\ Returned("getAllEntries")
    /\ Len(log) = 2
    /\ log[1].resp.body = Json(<<[data |-> <<payloadBig>>]>>)
    /\ log[2].resp.status = 500
    /\ Len(result.entries) = 2
    /\ result.entries[2].id = 12

-----------------------------------------------------------------------------
(* C15: when the only listing of browseFolder or the first listing of      *)
(* getAllEntries delivers no payload, or a payload without any key, the    *)
(* operation does not raise and returns { folderName: "", entries: [] }.   *)

MissingPayloadIsEmptyFolder ==
    (/\ op \in {"browseFolder", "getAllEntries"}
     /\ FinalIndices # {}
     /\ (FirstPage = << >> \/ DOMAIN FirstPage[1] = {}))
    => /\ outcome # "raised"
       /\ pc = "done" => result = [folderName |-> "", entries |-> << >>]

\* the only listing of browseFolder is answered 200 with the body {}
MissingPayloadIsEmptyFolderWitness ==
    /\ Returned("browseFolder")
    /\ Len(log) = 1
    /\ log[1].resp.status = 200
    /\ log[1].resp.body = Json(<< << >> >>)
    /\ result = [folderName |-> "", entries |-> << >>]

-----------------------------------------------------------------------------
(* C16: initSession returns after both of its fetches (with their redirect *)
(* chains) have completed, and returns true when the jar then holds a      *)
(* cookie (one it held before, or one a response of the two chains set)    *)
(* and false when the jar is empty.                                        *)

SessionOkIffJarNonEmpty ==
    Returned("initSession") =>
      /\ Cardinality(FinalIndices) = 2
      /\ result = (cookies # << >>)
      /\ result = (jar0 # << >> \/ Remember({}, log) # {})

\* the root page redirects and sets A=1, the login page sets nothing
SessionOkIffJarNonEmptyWitness ==
    /\ Returned("initSession")
    /\ jar0 = << >>
    /\ Len(log) = 3
    /\ log[1].resp.status = 301
    /\ log[1].resp.setCookie = <<scA1>>
    /\ log[2].resp.setCookie = << >>
    /\ log[3].resp.setCookie = << >>
    /\ result = TRUE

-----------------------------------------------------------------------------
(* The two pages of the session bootstrap, as the backend sees them *)

RootPage == <<"h", "t", "t", "p", "s", ":", "/", "/", "l", "f", ".", "g", "o", "v", "/", "W", "e", "b", "L", "i", "n", "k", "/">>
LoginPage == <<"h", "t", "t", "p", "s", ":", "/", "/", "l", "f", ".", "g", "o", "v", "/", "W", "e", "b", "L", "i", "n", "k", "/", "L", "o", "g", "i", "n", ".", "a", "s", "p", "x", "?", "d", "b", "i", "d", "=", "0", "&", "r", "e", "p", "o", "=", "R", "e", "p", "o">>

-----------------------------------------------------------------------------
(* C17: initSession requests the portal root first; the GET of             *)
(* {baseUrl}/Login.aspx?dbid={dbid}&repo={repoName} is the request that    *)
(* follows the end of the root's redirect chain, is issued at no other     *)
(* point, and carries every cookie the responses of that chain have set.   *)

RootThenLogin ==
    op = "initSession" =>
      \A i \in 1..Len(log) :
        /\ Method(log[i].req) = "GET"
        /\ i = 1 => log[i].req.url = RootPage
        /\ (i > 1 /\ ~IsRedirect(log[i - 1].resp)) =>
             /\ ChainsBefore(i) = 1
             /\ log[i].req.url = LoginPage
        /\ log[i].req.url = LoginPage =>
             /\ i > 1
             /\ ChainsBefore(i) = 1
             /\ ~IsRedirect(log[i - 1].resp)
             /\ \A c \in Remember({}, SubSeq(log, 1, i - 1)) :
                  (c.name \o <<"=">> \o c.value) \in HeaderPairs(CookieOf(log[i]))

\* the root redirects once, setting A=1 and then B=2; the login page is the
\* third request and carries both
RootThenLoginWitness ==
    /\ op = "initSession"
    /\ jar0 = << >>
    /\ Len(log) = 3
    /\ log[1].resp.setCookie = <<scA1>>
    /\ IsRedirect(log[1].resp)
    /\ log[2].resp.setCookie = <<scJunk, scB2>>
    /\ log[3].req.url = LoginPage
    /\ CookieOf(log[3]) = <<"A", "=", "1", ";", " ", "B", "=", "2">>

-----------------------------------------------------------------------------
(* The cookie parser on its own: the client receives responses whose       *)
(* Set-Cookie lines are any of the lines below, and parseCookies merges    *)
(* them into the jar.                                                      *)

\* number of Set-Cookie lines of one response
MaxLines == 2

\* the Set-Cookie lines a response may carry
CookieLines ==
    {scA1, scA2Path, scJunk, scSpaced, scNoName, scBlankName, scLate, scEquals}

RECURSIVE SeqsUpTo(_, _)
SeqsUpTo(S, n) ==
    IF n = 0 THEN {<< >>}
    ELSE LET shorter == SeqsUpTo(S, n - 1) IN
         shorter \cup {Append(q, x) : q \in shorter, x \in S}

\* the jars the client may hold when a response arrives
Jars ==
    { << >>,
      <<[name |-> <<"A">>, value |-> <<"1">>]>>,
      <<[name |-> <<"A">>, value |-> <<"1">>], [name |-> <<"B">>, value |-> <<"7">>]>> }

\* fetch has received a response and is about to call parseCookies on it
ParseInit ==
    /\ cookies \in Jars
    /\ response \in {Resp(200, << >>, lines, NoBody) :
                        lines \in SeqsUpTo(CookieLines, MaxLines)}
    /\ op = "parseCookies"
    /\ pc = "parse"
    /\ outcome = "none"
    /\ jar0 = cookies
    /\ log = << >>
    /\ calls = 0
    /\ args = << >>
    /\ phase = 0
    /\ url = << >>
    /\ options = << >>
    /\ listing = << >>
    /\ loc = allLocals0
    /\ result = << >>
    /\ earlier = {}

\* parseCookies(response), from its call in fetch to its return
parseCookiesCall ==
    /\ pc = "parse"
    /\ cookies' = parseCookies(cookies, response.setCookie)
    /\ pc' = "done"
    /\ outcome' = "returned"
    /\ UNCHANGED <<log, calls, op, args, phase, url, options, response, listing,
                   loc, result, earlier, jar0>>

ParseNext == parseCookiesCall

ParseSpec == ParseInit /\ [][ParseNext]_vars

-----------------------------------------------------------------------------
(* Reading a Set-Cookie line *)

\* the text without the blanks around it
Trimmed(s) ==
    LET inked == {k \in 1..Len(s) : s[k] # " "} IN
    IF inked = {} THEN << >>
    ELSE SubSeq(s, CHOOSE a \in inked : \A k \in inked : a <= k,
                   CHOOSE b \in inked : \A k \in inked : b >= k)

\* the positions of the character ch in s
Places(s, ch) == {k \in 1..Len(s) : s[k] = ch}

First(P) == CHOOSE a \in P : \A k \in P : a <= k

\* the text of a line before its first ";"
Pair(line) ==
    IF Places(line, ";") = {} THEN line
    ELSE SubSeq(line, 1, First(Places(line, ";")) - 1)

\* the cookie a line sets when every line with a "=" sets one: the name is
\* the text before the first "=", the value the text between the first "="
\* and the first ";", both trimmed; << >> for a line without "="
Claimed(line) ==
    IF Places(line, "=") = {} THEN << >>
    ELSE LET eq  == First(Places(line, "="))
             end == IF Places(line, ";") = {} THEN Len(line)
                    ELSE First(Places(line, ";")) - 1
         IN <<[name  |-> Trimmed(SubSeq(line, 1, eq - 1)),
               value |-> Trimmed(SubSeq(line, eq + 1, end))]>>

\* the cookie a line sets when only a line whose text before the first ";"
\* has a "=" that is not its first character sets one
Parsed(line) ==
    IF Places(Pair(line), "=") = {} \/ First(Places(Pair(line), "=")) = 1 THEN << >>
    ELSE LET eq == First(Places(Pair(line), "="))
         IN <<[name  |-> Trimmed(SubSeq(Pair(line), 1, eq - 1)),
               value |-> Trimmed(SubSeq(Pair(line), eq + 1, Len(Pair(line))))]>>

JarSet(jar) == {jar[i] : i \in 1..Len(jar)}

\* the cookies in force after the lines are read as Claimed / as Parsed
RECURSIVE AfterClaimed(_, _)
AfterClaimed(before, lines) ==
    IF lines = << >> THEN before
    ELSE LET c == Claimed(Head(lines)) IN
         AfterClaimed(IF c = << >> THEN before
                      ELSE {x \in before : x.name # c[1].name} \cup {c[1]},
                      Tail(lines))

RECURSIVE AfterParsed(_, _)
AfterParsed(before, lines) ==
    IF lines = << >> THEN before
    ELSE LET c == Parsed(Head(lines)) IN
         AfterParsed(IF c = << >> THEN before
                     ELSE {x \in before : x.name # c[1].name} \cup {c[1]},
                     Tail(lines))

-----------------------------------------------------------------------------
(* C18 as stated: every Set-Cookie line with a "=" is stored as name ->    *)
(* value, the name being the trimmed text before the first "=", the value  *)
(* the trimmed text between the first "=" and the first ";"; a line        *)
(* without "=" is ignored; parsing never raises.                           *)

CookieParsingAsStated ==
    (op = "parseCookies" /\ pc = "done") =>
      /\ outcome = "returned"
      /\ JarSet(cookies) = AfterClaimed(JarSet(jar0), response.setCookie)

(* C18: every Set-Cookie line whose text before the first ";" has a "="    *)
(* that is not its first character is stored as name -> value, the name    *)
(* being the trimmed text before that "=", the value the trimmed text      *)
(* after it up to the first ";"; every other line (no "=", a "=" only      *)
(* after the first ";", a line that starts with "=") is ignored; parsing   *)
(* never raises.                                                           *)

CookieParsing ==
    (op = "parseCookies" /\ pc = "done") =>
      /\ outcome = "returned"
      /\ JarSet(cookies) = AfterParsed(JarSet(jar0), response.setCookie)

\* " B = 2 ; HttpOnly" and then "=x": the jar holds B -> 2 and nothing else
CookieParsingWitness ==
    /\ op = "parseCookies"
    /\ pc = "done"
    /\ jar0 = << >>
    /\ response.setCookie = <<scSpaced, scNoName>>
    /\ cookies = <<[name |-> <<"B">>, value |-> <<"2">>]>>

-----------------------------------------------------------------------------
(* C19: a Set-Cookie line that sets no cookie does not end the processing  *)
(* of its response: every line of the response that sets a cookie, before  *)
(* or after it, has its name in the jar, with the value of the last line   *)
(* of the response that sets this name.                                    *)

MalformedDoesNotAbort ==
    (op = "parseCookies" /\ pc = "done") =>
      LET lines == response.setCookie IN
      \A i \in 1..Len(lines) :
        Parsed(lines[i]) # << >> =>
          \E j \in i..Len(lines) :
            /\ Parsed(lines[j]) # << >>
            /\ Parsed(lines[j])[1].name = Parsed(lines[i])[1].name
            /\ Parsed(lines[j])[1] \in JarSet(cookies)

\* "junk" and then "A=1": A -> 1 is in the jar
MalformedDoesNotAbortWitness ==
    /\ op = "parseCookies"
    /\ pc = "done"
    /\ jar0 = << >>
    /\ response.setCookie = <<scJunk, scA1>>
    /\ cookies = <<[name |-> <<"A">>, value |-> <<"1">>]>>

-----------------------------------------------------------------------------
(* The listing endpoint, as the backend sees it *)

ListingEndpoint == <<"h", "t", "t", "p", "s", ":", "/", "/", "l", "f", ".", "g", "o", "v", "/", "W", "e", "b", "L", "i", "n", "k", "/", "F", "o", "l", "d", "e", "r", "L", "i", "s", "t", "i", "n", "g", "S", "e", "r", "v", "i", "c", "e", ".", "a", "s", "p", "x", "/", "G", "e", "t", "F", "o", "l", "d", "e", "r", "L", "i", "s", "t", "i", "n", "g", "2">>

\* the "name=value" texts of a set of cookies
PairTexts(S) == {c.name \o <<"=">> \o c.value : c \in S}

-----------------------------------------------------------------------------
(* C20: every listing request goes to                                      *)
(* {baseUrl}/FolderListingService.aspx/GetFolderListing2, and it (like any *)
(* request that follows a redirect of it) is a POST whose body has exactly *)
(* the keys repoName, folderId, getNewListing = true, start, end,          *)
(* sortColumn = "name", sortAscending = true, with the headers             *)
(* Content-Type "application/json; charset=utf-8", Accept                  *)
(* "application/json" (not the default), X-Requested-With "XMLHttpRequest" *)
(* and a Cookie header that holds the cookies of the jar.                  *)

ListingRequestShape ==
    op \in {"getFolderListing", "getAllEntries", "browseFolder"} =>
      \A i \in 1..Len(log) :
        LET req  == log[i].req
            body == req.init.body
            h    == req.init.headers
        IN /\ (i = 1 \/ ~IsRedirect(log[i - 1].resp)) => req.url = ListingEndpoint
           /\ req.init.method = "POST"
           /\ DOMAIN body = {"repoName", "folderId", "getNewListing", "start", "end",
                             "sortColumn", "sortAscending"}
           /\ body.repoName = <<"R", "e", "p", "o">>
           /\ body.folderId = args.folderId
           /\ body.getNewListing = TRUE
           /\ body.start \in Nat
           /\ body.end > body.start
           /\ body.sortColumn = "name"
           /\ body.sortAscending = TRUE
           /\ h["Content-Type"] = "application/json; charset=utf-8"
           /\ h["Accept"] = "application/json"
           /\ h["X-Requested-With"] = "XMLHttpRequest"
           /\ HeaderPairs(h["Cookie"])
                = PairTexts(Remember(JarSet(jar0), SubSeq(log, 1, i - 1)))

\* a listing of folder 874714 requested with the cookies A=1 and B=2 in the jar
ListingRequestShapeWitness ==
    /\ op = "getFolderListing"
    /\ Len(log) = 1
    /\ log[1].req.url = ListingEndpoint
    /\ log[1].req.init.body.folderId = 874714
    /\ log[1].req.init.body.start = 0
    /\ log[1].req.init.body.end = 500
    /\ log[1].req.init.headers["Accept"] = "application/json"
    /\ log[1].req.init.headers["Cookie"] = <<"A", "=", "1", ";", " ", "B", "=", "2">>

-----------------------------------------------------------------------------
(* C21: redirects are followed without any limit on their number: as long  *)
(* as the backend has answered every request of a fetch with a redirect    *)
(* status and a Location, fetch has not returned and its next follow-up    *)
(* request is the step in progress.                                        *)

RedirectsWithoutLimit ==
    (op = "fetch" /\ \A i \in 1..Len(log) : IsRedirect(log[i].resp)) =>
      /\ pc = "fetch"
      /\ outcome = "none"
      /\ Len(log) > 0 => resolveUrl(url) = Target(log[Len(log)].resp.location[1])

\* a cycle of two URLs: Welcome.aspx redirects to /Other.aspx, which
\* redirects to Welcome.aspx, and the fourth request is about to be issued
RedirectsWithoutLimitWitness ==
    /\ op = "fetch"
    /\ Len(log) = 3
    /\ \A i \in 1..3 : IsRedirect(log[i].resp)
    /\ log[1].req.url = Target(locWelcome)
    /\ log[2].req.url = Target(locOther)
    /\ log[3].req.url = Target(locWelcome)
    /\ resolveUrl(url) = Target(locOther)
    /\ pc = "fetch"

-----------------------------------------------------------------------------
(* The pages delivered so far *)

\* the payloads of the pages delivered, in order
RECURSIVE PagesFrom(_)
PagesFrom(from) ==
    IF from > Len(log) THEN << >>
    ELSE (IF from \in FinalIndices THEN PayloadOf(log[from].resp) ELSE << >>)
         \o PagesFrom(from + 1)

-----------------------------------------------------------------------------
(* C22 as stated: when every page delivered reports a total above the      *)
(* offset reached after it, getAllEntries keeps requesting pages and does  *)
(* not return.                                                             *)

PaginationWithoutEnd ==
    (/\ op = "getAllEntries"
     /\ FinalIndices # {}
     /\ AllDelivered
     /\ \A k \in 1..Len(PagesFrom(1)) : ReportedTotal(PagesFrom(1)[k]) > 500 * k)
    => ~Returned("getAllEntries")

(* C22: getAllEntries has no limit of its own on the number of pages: with *)
(* every page delivered it goes on requesting windows exactly as long as   *)
(* the offset is below the total the FIRST page reported, whatever totals  *)
(* the later pages report; it returns after ceil(T/500) pages, a number    *)
(* only the backend's first total T decides.                               *)

PaginationBoundedByFirstTotal ==
    (op = "getAllEntries" /\ FinalIndices # {} /\ AllDelivered) =>
      LET total == ReportedTotal(FirstPage[1])
          pages == Cardinality(FinalIndices)
      IN /\ 500 * pages < total =>
              /\ outcome # "returned"
              /\ pc = "done" => outcome = "raised"
         /\ (500 * pages >= total /\ pc = "done") => Returned("getAllEntries")
         /\ pc = "fetch" => 500 * pages < total

\* a first page that reports 5000 entries: after three pages the fourth
\* request is the step in progress
PaginationBoundedByFirstTotalWitness ==
    /\ op = "getAllEntries"
    /\ Len(log) = 3
    /\ AllDelivered
    /\ Cardinality(FinalIndices) = 3
    /\ ReportedTotal(FirstPage[1]) = 5000
    /\ pc = "fetch"
    /\ options.body.start = 1500

-----------------------------------------------------------------------------
(* C23 as stated: when the first page reports a total of 0 together with   *)
(* result rows, getAllEntries returns without these rows.                  *)

ZeroTotalRowsDropped ==
    (/\ Returned("getAllEntries")
     /\ FirstPage # << >>
     /\ ReportedTotal(FirstPage[1]) = 0
     /\ RowsOf(FirstPage[1]) # << >>)
    => \A i \in 1..Len(result.entries) :
         \A k \in 1..Len(RowsOf(FirstPage[1])) :
           result.entries[i].id # RowsOf(FirstPage[1])[k].entryId

(* C23: when the first page reports a total of 0 together with result      *)
(* rows, the body of the loop has run once before the total is tested:     *)
(* getAllEntries issues this one request and returns one entry for each of *)
(* these rows.                                                             *)

ZeroTotalRowsReturned ==
    (/\ Returned("getAllEntries")
     /\ FirstPage # << >>
     /\ ReportedTotal(FirstPage[1]) = 0
     /\ RowsOf(FirstPage[1]) # << >>)
    => /\ Cardinality(FinalIndices) = 1
       /\ [i \in 1..Len(result.entries) |-> result.entries[i].id]
            = [k \in 1..Len(RowsOf(FirstPage[1])) |-> RowsOf(FirstPage[1])[k].entryId]

\* the page reports the folder Clerk with total 0 and the row Agendas
ZeroTotalRowsReturnedWitness ==
    /\ Returned("getAllEntries")
    /\ Len(log) = 1
    /\ log[1].resp.body = Json(<<[data |-> <<payloadZero>>]>>)
    /\ Len(result.entries) = 1
    /\ result.entries[1].id = 11
    /\ result.entries[1].name = "Agendas"

-----------------------------------------------------------------------------
(* C24: a page delivered without result rows does not end getAllEntries:   *)
(* when the offset after it is still below the total of the first page,    *)
(* the next window is requested (first total 1200 and a second page        *)
(* without rows: the request with start = 1000 follows).                   *)

EmptyPageDoesNotStop ==
    op = "getAllEntries" =>
      \A i \in FinalIndices :
        LET after == 500 * (ChainsBefore(i) + 1) IN
        (/\ PayloadOf(log[i].resp) # << >>
         /\ RowsOf(PayloadOf(log[i].resp)[1]) = << >>
         /\ after < ReportedTotal(FirstPage[1]))
        => /\ i = Len(log) => pc \in {"fetched", "listed", "fetch"}
           /\ i < Len(log) => log[i + 1].req.init.body.start = after
           /\ (i = Len(log) /\ pc = "fetch") => options.body.start = after

\* the first page reports 1200 entries, the second has no rows
EmptyPageDoesNotStopWitness ==
    /\ op = "getAllEntries"
    /\ Len(log) = 3
    /\ log[1].resp.body = Json(<<[data |-> <<payloadBig>>]>>)
    /\ log[2].resp.body = Json(<<[d |-> <<payloadEmpty>>]>>)
    /\ log[3].req.init.body.start = 1000
    /\ log[3].req.init.body.end = 1500

-----------------------------------------------------------------------------
(* C25: the entries getAllEntries returns are, one entry for each row, the *)
(* rows of the pages in the order of the requests and, within a page, in   *)
(* the order the backend sent them; browseFolder returns the rows of its   *)
(* page in the order sent.  No row is moved, left out or merged with a     *)
(* row of the same id.                                                     *)

BackendOrderKept ==
    (Returned("getAllEntries") \/ Returned("browseFolder")) =>
      [i \in 1..Len(result.entries) |-> <<result.entries[i].id, result.entries[i].name>>]
        = [i \in 1..Len(RowsFrom(1)) |-> <<RowsFrom(1)[i].entryId, RowsFrom(1)[i].name>>]

\* the backend sends the rows Agendas, Minutes twice and then Link, Scan:
\* the result repeats them and is not in the order of the names
BackendOrderKeptWitness ==
    /\ Returned("getAllEntries")
    /\ Len(log) = 3
    /\ [i \in 1..Len(result.entries) |-> result.entries[i].name]
         = <<"Agendas", "Minutes", "Agendas", "Minutes", "Link", "Scan">>

-----------------------------------------------------------------------------
(* Replaying an operation with the legacy client *)

\* the url argument of the fetch activation that issued request i, given the
\* url `first` the operation passes at the start of the chain
UrlArgument(i, first) ==
    IF i > 1 /\ IsRedirect(log[i - 1].resp) THEN log[i - 1].resp.location[1] ELSE first

\* the jar of a client that started with jar0 and has parsed the responses
\* before request i
RECURSIVE JarBefore(_)
JarBefore(i) ==
    IF i <= 1 THEN jar0
    ELSE parseCookies(JarBefore(i - 1), log[i - 1].resp.setCookie)

\* the legacy getAllEntries run against the listings `values`
RECURSIVE LegacyAllEntriesOf(_, _)
LegacyAllEntriesOf(l, values) ==
    IF values = << >> \/ ~l.looping THEN l
    ELSE LegacyAllEntriesOf(legacyAllEntriesStep(l, Head(values)), Tail(values))

\* the requests are those the legacy client issues
LegacySameRequests ==
    /\ op = "getAllEntries" =>
         \A i \in 1..Len(log) :
           log[i].req =
             [ url  |-> legacyResolveUrl(UrlArgument(i, legacyListingUrl)),
               init |-> legacyRequestInit(
                          legacyListingOptions(args.folderId, 500 * ChainsBefore(i),
                                               500 * ChainsBefore(i) + 500),
                          JarBefore(i)) ]
    /\ op = "initSession" =>
         \A i \in 1..Len(log) :
           log[i].req =
             [ url  |-> legacyResolveUrl(UrlArgument(i, IF ChainsBefore(i) = 0
                                                       THEN legacyRootUrl
                                                       ELSE legacyLoginUrl)),
               init |-> legacyRequestInit(<< >>, JarBefore(i)) ]

-----------------------------------------------------------------------------
(* C26: the legacy client and the library client issue the same requests   *)
(* against the same responses, and getAllEntries of the legacy client      *)
(* returns what getAllEntries of the library client returns, with the same *)
(* type label for every type code.                                         *)

LegacyEquivalent ==
    /\ LegacySameRequests
    /\ Returned("getAllEntries") =>
         LET l == LegacyAllEntriesOf(allLocals0, ListingsFrom(1))
         IN result = [folderName |-> l.folderName, entries |-> l.entries]

-----------------------------------------------------------------------------
(* Two fetches in flight on one client: client.fetch(u) has been called    *)
(* twice without awaiting the first call.  Each call runs up to its await  *)
(* of the transport (the request, with the Cookie header read from the jar *)
(* at that moment) and resumes when its response arrives (parseCookies,    *)
(* then the redirect follow-up or the return); the calls interleave at     *)
(* their awaits.  loc holds the position of each call, log the requests    *)
(* and responses in the order the client sent and processed them.          *)

\* number of requests one of the two calls may issue
MaxHops == 2

Procs == {1, 2}

\* the responses the backend gives to call p: its cookie is A=1 for the
\* first call and A=2 for the second
RaceResponses(p) ==
    LET line == IF p = 1 THEN scA1 ELSE scA2Path IN
    { Resp(302, <<locOther>>, <<line>>, NoBody),
      Resp(200, << >>, <<line>>, NoBody),
      Resp(200, << >>, << >>, NoBody) }

\* the jar of a client of its own for call p: only the responses to p parsed
RECURSIVE OwnJar(_, _)
OwnJar(p, events) ==
    IF events = << >> THEN << >>
    ELSE LET e == events[Len(events)]
             before == OwnJar(p, SubSeq(events, 1, Len(events) - 1))
         IN IF e.proc = p /\ "resp" \in DOMAIN e
            THEN parseCookies(before, e.resp.setCookie) ELSE before

\* mutant: every call has a jar of its own
jarSeenBy_own(p) == OwnJar(p, log)

\* this.cookies as call p reads it: the one jar of the instance
jarSeenBy(p) == cookies

RaceInit ==
    /\ cookies = << >>
    /\ log = << >>
    /\ loc = [p \in Procs |-> [pc |-> "call", url |-> locWelcome, n |-> 0]]
    /\ op = "fetch"
    /\ pc = "race"
    /\ calls = 2
    /\ args = << >>
    /\ phase = 0
    /\ url = << >>
    /\ options = << >>
    /\ response = Failure
    /\ listing = << >>
    /\ outcome = "none"
    /\ result = << >>
    /\ earlier = {}
    /\ jar0 = << >>

\* call p runs from resolveUrl to its await of the transport
raceSend(p) ==
    /\ loc[p].pc = "call"
    /\ loc[p].n < MaxHops
    /\ log' = Append(log, [proc |-> p,
                           req  |-> [url  |-> resolveUrl(loc[p].url),
                                     init |-> requestInit(<< >>, jarSeenBy(p))]])
    /\ loc' = [loc EXCEPT ![p].pc = "sent", ![p].n = loc[p].n + 1]
    /\ UNCHANGED <<cookies, calls, op, args, pc, phase, url, options, response,
                   listing, outcome, result, earlier, jar0>>

\* the response to call p arrives: parseCookies, then the follow-up or the return
raceReceive(p) ==
    /\ loc[p].pc = "sent"
    /\ \E r \in RaceResponses(p) :
         /\ log' = Append(log, [proc |-> p, resp |-> r])
         /\ cookies' = parseCookies(cookies, r.setCookie)
         /\ loc' = IF followsRedirect(r)
                   THEN [loc EXCEPT ![p].pc = "call", ![p].url = r.location[1]]
                   ELSE [loc EXCEPT ![p].pc = "done"]
    /\ UNCHANGED <<calls, op, args, pc, phase, url, options, response,
                   listing, outcome, result, earlier, jar0>>

RaceNext == \E p \in Procs : raceSend(p) \/ raceReceive(p)

RaceSpec == RaceInit /\ [][RaceNext]_vars

\* the Set-Cookie lines of the responses among the events, in log order
RECURSIVE LinesOf(_)
LinesOf(events) ==
    IF events = << >> THEN << >>
    ELSE (IF "resp" \in DOMAIN Head(events) THEN Head(events).resp.setCookie ELSE << >>)
         \o LinesOf(Tail(events))

-----------------------------------------------------------------------------
(* C27: with two fetches in flight on one client the jar is shared and     *)
(* unguarded: the jar holds, for each name, the value of the response      *)
(* processed last, whichever call it answered, and every request (also a   *)
(* redirect follow-up) carries the cookies of all responses processed      *)
(* before it, those of the other call included.  So both depend on the     *)
(* order in which the responses are processed.                             *)

-----------------------------------------------------------------------------
(* C28: a listing operation (getFolderListing, getAllEntries,              *)
(* browseFolder) issues only its listing requests and the follow-ups of    *)
(* their redirects, never a request to the portal root or the login path;  *)
(* as the first operation on a client its first request has an empty       *)
(* Cookie header and the later ones carry only what the responses to this  *)
(* operation have set.                                                     *)

NoAutoInit ==
    op \in {"getFolderListing", "getAllEntries", "browseFolder"} =>
      \A i \in 1..Len(log) :
        /\ log[i].req.url \notin {RootPage, LoginPage}
        /\ log[i].req.url = IF i > 1 /\ IsRedirect(log[i - 1].resp)
                            THEN Target(log[i - 1].resp.location[1])
                            ELSE ListingEndpoint
        /\ Method(log[i].req) = "POST"
        /\ calls = 1 =>
             /\ i = 1 => CookieOf(log[i]) = << >>
             /\ HeaderPairs(CookieOf(log[i]))
                  = PairTexts(Remember({}, SubSeq(log, 1, i - 1)))

\* getAllEntries as the first operation on a new client: two pages
\* requested, both without cookies
NoAutoInitWitness ==
    /\ op = "getAllEntries"
    /\ calls = 1
    /\ Len(log) = 2
    /\ log[1].req.url = ListingEndpoint
    /\ log[2].req.url = ListingEndpoint
    /\ log[2].req.init.body.start = 500
    /\ CookieOf(log[1]) = << >>
    /\ CookieOf(log[2]) = << >>

-----------------------------------------------------------------------------
(* The interactive browser: browseCommand of the command line             *)
(*                                                                         *)
(* A specification of its own over the same variables: loc holds           *)
(* browseCommand's `state`, earlier the prompts answered so far (the input *)
(* typed, the folders on display, the state before), log the fetchCommand  *)
(* calls the last command ran, calls the number of prompts answered and pc *)
(* is "browse" at the top of the loop.                                     *)

\* number of prompts one session answers
MaxCommands == 4

\* characters
UpperCase == <<"A", "B", "C", "D", "E", "F", "G", "H", "I", "J", "K", "L", "M",
               "N", "O", "P", "Q", "R", "S", "T", "U", "V", "W", "X", "Y", "Z">>
LowerCase == <<"a", "b", "c", "d", "e", "f", "g", "h", "i", "j", "k", "l", "m",
               "n", "o", "p", "q", "r", "s", "t", "u", "v", "w", "x", "y", "z">>
Digits    == <<"0", "1", "2", "3", "4", "5", "6", "7", "8", "9">>

IsDigit(ch) == \E k \in 1..Len(Digits) : Digits[k] = ch
IsUpper(ch) == \E k \in 1..Len(UpperCase) : UpperCase[k] = ch
IsLower(ch) == \E k \in 1..Len(LowerCase) : LowerCase[k] = ch

\* String.prototype.toLowerCase()
toLowerCase(s) ==
    [i \in 1..Len(s) |->
       IF IsUpper(s[i])
       THEN LowerCase[CHOOSE k \in 1..Len(UpperCase) : UpperCase[k] = s[i]]
       ELSE s[i]]

\* String.prototype.split(sep) for a one-character separator
RECURSIVE Split(_, _)
Split(s, sep) ==
    LET i == IndexOf(s, sep)
    IN IF i = -1 THEN <<s>>
       ELSE <<Slice(s, 0, i)>> \o Split(Slice(s, i + 1, Len(s)), sep)

\* the value of a run of decimal digits
RECURSIVE DigitsValue(_)
DigitsValue(ds) ==
    IF ds = << >> THEN 0
    ELSE DigitsValue(SubSeq(ds, 1, Len(ds) - 1)) * 10
         + ((CHOOSE k \in 1..Len(Digits) : Digits[k] = ds[Len(ds)]) - 1)

\* parseInt(s): leading whitespace skipped, an optional sign, then the
\* longest run of digits; << >> is NaN
parseInt(s) ==
    LET lead   == IF \A i \in 1..Len(s) : s[i] \in Whitespace THEN Len(s)
                  ELSE (CHOOSE i \in 1..Len(s) :
                          s[i] \notin Whitespace /\ \A j \in 1..(i-1) : s[j] \in Whitespace) - 1
        t      == SubSeq(s, lead + 1, Len(s))
        signed == t # << >> /\ t[1] \in {"+", "-"}
        u      == IF signed THEN Tail(t) ELSE t
        n      == IF \A i \in 1..Len(u) : IsDigit(u[i]) THEN Len(u)
                  ELSE (CHOOSE i \in 1..Len(u) :
                          ~IsDigit(u[i]) /\ \A j \in 1..(i-1) : IsDigit(u[j])) - 1
        v      == DigitsValue(SubSeq(u, 1, n))
    IN IF n = 0 THEN << >>
       ELSE IF signed /\ t[1] = "-" THEN <<0 - v>> ELSE <<v>>

\* Array.from(set).sort((a, b) => a - b)
RECURSIVE Sorted(_)
Sorted(S) ==
    IF S = {} THEN << >>
    ELSE LET m == CHOOSE x \in S : \A y \in S : x <= y
         IN <<m>> \o Sorted(S \ {m})

\* the numbers one comma-separated part of the input adds to the set
partSelections(part, max) ==
    IF IndexOf(part, "-") # -1
    THEN LET ps    == Split(part, "-")
             start == parseInt(Trim(ps[1]))
             end   == parseInt(Trim(ps[2]))
         IN IF start # << >> /\ end # << >>
            THEN LET lo == IF start[1] <= end[1] THEN start[1] ELSE end[1]
                     hi == IF start[1] <= end[1] THEN end[1] ELSE start[1]
                 IN {i \in lo..hi : i >= 1 /\ i <= max}
            ELSE {}
    ELSE LET num == parseInt(part)
         IN IF num # << >> /\ num[1] >= 1 /\ num[1] <= max THEN {num[1]} ELSE {}

\* mutant: numbers beyond the folders on display are kept
parseSelection_unchecked(input, max) ==
    LET parts == Split(input, ",")
    IN Sorted(UNION {partSelections(Trim(parts[i]), max + 9) : i \in 1..Len(parts)})

\* parseSelection(input, max)
parseSelection(input, max) ==
    LET parts == Split(input, ",")
    IN Sorted(UNION {partSelections(Trim(parts[i]), max) : i \in 1..Len(parts)})

\* input.match(/^[\d,\- ]+$/)
isNumeric(input) ==
    /\ Len(input) >= 1
    /\ \A i \in 1..Len(input) : IsDigit(input[i]) \/ input[i] \in {",", "-", " "}

\* folder.name.replace(/[^a-z0-9]/gi, "-").toLowerCase()
sanitizedName(name) ==
    toLowerCase([i \in 1..Len(name) |->
                   IF IsDigit(name[i]) \/ IsUpper(name[i]) \/ IsLower(name[i])
                   THEN name[i] ELSE "-"])

sArcadia == <<"a", "r", "c", "a", "d", "i", "a", "-">>
sJson    == <<".", "j", "s", "o", "n">>
sRoot    == <<"R", "o", "o", "t">>
sArrow   == <<" ", ">", " ">>

\* `arcadia-${sanitizedName}-${id}.json`
filename(folder) ==
    sArcadia \o sanitizedName(folder.name) \o <<"-">> \o Decimal(folder.id) \o sJson

\* the `state` browseCommand starts with
browseState0(startFolderId) ==
    [ currentFolderId |-> startFolderId,
      currentPath     |-> sRoot,
      selectedFolders |-> << >>,
      history         |-> << >> ]

\* selectedFolders.has(id)
selectedHas(sel, id) == \E i \in 1..Len(sel) : sel[i].id = id

\* selectedFolders.set(f.id, f): an existing key keeps its position
selectedSet(sel, f) ==
    IF selectedHas(sel, f.id)
    THEN [i \in 1..Len(sel) |-> IF sel[i].id = f.id THEN f ELSE sel[i]]
    ELSE Append(sel, f)

\* folders.forEach((f) => state.selectedFolders.set(f.id, f))
RECURSIVE setEach(_, _)
setEach(sel, fs) ==
    IF fs = << >> THEN sel ELSE setEach(selectedSet(sel, Head(fs)), Tail(fs))

\* mutant: the oldest history entry is taken
goBack_oldest(state) ==
    IF Len(state.history) > 0
    THEN [state EXCEPT !.history = Tail(state.history),
                       !.currentFolderId = state.history[1].id,
                       !.currentPath = state.history[1].path]
    ELSE state

\* command "b"
goBack(state) ==
    IF Len(state.history) > 0
    THEN LET prev == state.history[Len(state.history)]
         IN [state EXCEPT !.history = SubSeq(state.history, 1, Len(state.history) - 1),
                          !.currentFolderId = prev.id,
                          !.currentPath = prev.path]
    ELSE state

\* mutant: the folders on display are added to the selection
selectAll_adding(state, folders) ==
    IF Len(folders) > 0
    THEN [state EXCEPT !.selectedFolders = setEach(state.selectedFolders, folders)]
    ELSE state

\* command "a"
selectAll(state, folders) ==
    IF Len(folders) > 0
    THEN [state EXCEPT !.selectedFolders = setEach(<< >>, folders)]
    ELSE state

\* command "c"
clearSelection(state) == [state EXCEPT !.selectedFolders = << >>]

\* one number: navigate into the folder
navigate(state, selectedFolder) ==
    [state EXCEPT !.history = Append(state.history,
                                     [id |-> state.currentFolderId,
                                      path |-> state.currentPath]),
                  !.currentFolderId = selectedFolder.id,
                  !.currentPath = state.currentPath \o sArrow \o selectedFolder.name]

\* folders[num - 1]: << >> is undefined
folderAt(folders, num) ==
    IF num \in 1..Len(folders) THEN <<folders[num]>> ELSE << >>

\* several numbers: add the folders not yet selected; reading .id of an
\* undefined folder throws and ends the forEach
RECURSIVE addEach(_, _, _)
addEach(sel, folders, selections) ==
    IF selections = << >> THEN sel
    ELSE LET folder == folderAt(folders, Head(selections))
         IN IF folder = << >> THEN sel
            ELSE addEach(IF selectedHas(sel, folder[1].id) THEN sel
                         ELSE Append(sel, folder[1]),
                         folders, Tail(selections))

\* the numeric branch reads a property of an undefined folder: a TypeError
numericThrows(folders, input) ==
    LET selections == parseSelection(input, Len(folders))
    IN \E n \in 1..Len(selections) : folderAt(folders, selections[n]) = << >>

\* the numeric branch of the loop
numericCommand(state, folders, input) ==
    LET selections == parseSelection(input, Len(folders))
    IN IF Len(selections) = 0 THEN state
       ELSE IF Len(selections) = 1
       THEN LET selectedFolder == folderAt(folders, selections[1])
            IN IF selectedFolder = << >>
               THEN [state EXCEPT !.history = Append(state.history,
                                                     [id |-> state.currentFolderId,
                                                      path |-> state.currentPath])]
               ELSE navigate(state, selectedFolder[1])
       ELSE [state EXCEPT !.selectedFolders = addEach(state.selectedFolders, folders, selections)]

\* mutant: the selected folders are fetched last selected first
fetchCalls_reversed(state) ==
    IF Len(state.selectedFolders) > 0
    THEN [i \in 1..Len(state.selectedFolders) |->
            LET f == state.selectedFolders[Len(state.selectedFolders) + 1 - i]
            IN [ folderId |-> f.id, outputPath |-> <<filename(f)>> ]]
    ELSE << [folderId |-> state.currentFolderId, outputPath |-> << >>] >>

\* command "f": the fetchCommand calls, in the order they are awaited
fetchCalls(state) ==
    IF Len(state.selectedFolders) > 0
    THEN [i \in 1..Len(state.selectedFolders) |->
            [ folderId   |-> state.selectedFolders[i].id,
              outputPath |-> <<filename(state.selectedFolders[i])>> ]]
    ELSE << [folderId |-> state.currentFolderId, outputPath |-> << >>] >>

\* the state after command "f" has run all its fetches
fetched(state) ==
    IF Len(state.selectedFolders) > 0 THEN clearSelection(state) ELSE state

\* the folder tree the portal serves
treeRow(id, name, type) == [entryId |-> id, name |-> name, type |-> type]

treeRoot   == [name |-> "Clerk", totalEntries |-> 4, colTypes |-> colsA,
               results |-> << treeRow(21, <<"C", "C">>, 0),
                              treeRow(12, <<"M", "i", "n">>, 1),
                              treeRow(22, <<"A", " ", "b">>, 0),
                              treeRow(23, <<"P", "&", "Z">>, 0) >>]
treeCouncil == [name |-> "CC", totalEntries |-> 2, colTypes |-> colsA,
                results |-> << treeRow(24, <<"X", "1">>, 0),
                               treeRow(25, <<"N", "o", "t", "e">>, -2) >>]
treeDocs    == [name |-> "P&Z", totalEntries |-> 1, colTypes |-> colsB,
                results |-> << treeRow(26, <<"M", "a", "p">>, 1) >>]

\* the answer to the listing request for a folder
TreeResponse(folderId) ==
    CASE folderId = 1  -> Resp(200, << >>, << >>, Json(<<[data |-> <<treeRoot>>]>>))
      [] folderId = 21 -> Resp(200, << >>, << >>, Json(<<[d |-> <<treeCouncil>>]>>))
      [] folderId = 22 -> Resp(500, << >>, << >>, NoBody)
      [] folderId = 23 -> Resp(200, << >>, << >>, Json(<<[data |-> <<treeDocs>>]>>))
      [] OTHER         -> Resp(200, << >>, << >>, Json(<<[data |-> <<payloadEmpty>>]>>))

\* entries.filter((e) => e.type === "Folder") on what browseFolder returned
visibleFolders(folderId) ==
    LET entries == browseDecode(listingValue(TreeResponse(folderId))).entries
    IN SelectSeq(entries, LAMBDA e : e.type = "Folder")

\* what the user types at the prompt
Inputs ==
    { <<" ", "B">>, <<"a">>, <<"c">>, <<"f">>, <<"q">>, <<"x">>,
      <<"1">>, <<"1", ",", "3">>, <<"3", "-", "1">>, <<"2", "-", "2">>,
      <<"1", ",", "9">> }

\* the folder browseCommand is started on
StartFolderIds == {1}

\* input.toLowerCase().trim()
command(input) == Trim(toLowerCase(input))

BrowseInit ==
    /\ \E s \in StartFolderIds :
         /\ args = [startFolderId |-> s]
         /\ loc = browseState0(s)
    /\ op = "browseCommand"
    /\ pc = "browse"
    /\ calls = 0
    /\ log = << >>
    /\ earlier = << >>
    /\ outcome = "none"
    /\ cookies = << >>
    /\ phase = 0
    /\ url = << >>
    /\ options = << >>
    /\ response = Failure
    /\ listing = << >>
    /\ result = << >>
    /\ jar0 = << >>

\* one turn of the loop: the listing, the prompt and the branch taken
turn(input, state1, fetches, running) ==
    /\ earlier' = Append(earlier, [ input   |-> input,
                                    folders |-> visibleFolders(loc.currentFolderId),
                                    before  |-> loc ])
    /\ loc' = state1
    /\ log' = fetches
    /\ calls' = calls + 1
    /\ pc' = IF running THEN "browse" ELSE "done"
    /\ outcome' = IF running THEN "none" ELSE "returned"
    /\ UNCHANGED <<cookies, op, args, phase, url, options, response, listing,
                   result, jar0>>

prompt(input) ==
    /\ pc = "browse"
    /\ calls < MaxCommands
    /\ input \in Inputs

browseQuit ==
    \E input \in Inputs :
      /\ prompt(input)
      /\ command(input) = <<"q">>
      /\ turn(input, loc, << >>, FALSE)

browseBack ==
    \E input \in Inputs :
      /\ prompt(input)
      /\ command(input) = <<"b">>
      /\ turn(input, goBack(loc), << >>, TRUE)

browseFetch ==
    \E input \in Inputs :
      /\ prompt(input)
      /\ command(input) = <<"f">>
      /\ turn(input, fetched(loc), fetchCalls(loc), TRUE)

\* command "f" when one of its fetchCommand calls throws: browseCommand rejects
browseFetchRaise ==
    \E input \in Inputs :
      /\ prompt(input)
      /\ command(input) = <<"f">>
      /\ \E n \in 1..Len(fetchCalls(loc)) :
           /\ earlier' = Append(earlier, [ input   |-> input,
                                           folders |-> visibleFolders(loc.currentFolderId),
                                           before  |-> loc ])
           /\ log' = SubSeq(fetchCalls(loc), 1, n)
      /\ calls' = calls + 1
      /\ pc' = "done"
      /\ outcome' = "raised"
      /\ UNCHANGED <<cookies, op, args, phase, url, options, response, listing,
                     loc, result, jar0>>

browseSelectAll ==
    \E input \in Inputs :
      /\ prompt(input)
      /\ command(input) = <<"a">>
      /\ turn(input, selectAll(loc, visibleFolders(loc.currentFolderId)), << >>, TRUE)

browseClear ==
    \E input \in Inputs :
      /\ prompt(input)
      /\ command(input) = <<"c">>
      /\ turn(input, clearSelection(loc), << >>, TRUE)

browseNumeric ==
    \E input \in Inputs :
      /\ prompt(input)
      /\ command(input) \notin {<<"q">>, <<"b">>, <<"f">>, <<"a">>, <<"c">>}
      /\ isNumeric(input)
      /\ LET folders == visibleFolders(loc.currentFolderId) IN
         IF numericThrows(folders, input)
         THEN \* the TypeError rejects browseCommand
              /\ earlier' = Append(earlier, [ input   |-> input,
                                              folders |-> folders,
                                              before  |-> loc ])
              /\ loc' = numericCommand(loc, folders, input)
              /\ log' = << >>
              /\ calls' = calls + 1
              /\ pc' = "done"
              /\ outcome' = "raised"
              /\ result' = <<"TypeError">>
              /\ UNCHANGED <<cookies, op, args, phase, url, options, response,
                             listing, jar0>>
         ELSE turn(input, numericCommand(loc, folders, input), << >>, TRUE)

browseInvalid ==
    \E input \in Inputs :
      /\ prompt(input)
      /\ command(input) \notin {<<"q">>, <<"b">>, <<"f">>, <<"a">>, <<"c">>}
      /\ ~isNumeric(input)
      /\ turn(input, loc, << >>, TRUE)

\* the listing request of browseFolder is rejected by the transport:
\* browseCommand rejects
browseRaise ==
    /\ pc = "browse"
    /\ pc' = "done"
    /\ outcome' = "raised"
    /\ UNCHANGED <<cookies, log, calls, op, args, phase, url, options, response,
                   listing, loc, result, earlier, jar0>>

BrowseNext ==
    \/ browseQuit
    \/ browseBack
    \/ browseFetch
    \/ browseFetchRaise
    \/ browseSelectAll
    \/ browseClear
    \/ browseNumeric
    \/ browseInvalid
    \/ browseRaise

BrowseSpec == BrowseInit /\ [][BrowseNext]_vars

-----------------------------------------------------------------------------
(* Reading the session: the prompts answered, in order *)

\* the state before and after the k-th prompt was handled
Before(k) == earlier[k].before
After(k)  == IF k < Len(earlier) THEN earlier[k + 1].before ELSE loc

\* the numbers 1..9 as the user writes them
Written(n) == Decimal(n)

\* the k-th input is one number that names a folder on display
Navigates(k) ==
    \E n \in 1..Len(earlier[k].folders) : earlier[k].input = Written(n)

\* the k-th input is the command b
GoesBack(k) == earlier[k].input \in {<<"b">>, <<" ", "B">>}

\* prompts i .. i+2n-1 are n navigations followed by n times b
Excursion(i, n) ==
    /\ n >= 1
    /\ i + 2 * n - 1 <= Len(earlier)
    /\ \A k \in i..(i + n - 1) : Navigates(k)
    /\ \A k \in (i + n)..(i + 2 * n - 1) : GoesBack(k)

-----------------------------------------------------------------------------
(* C29: the command b goes back to the parent folder, the history being a  *)
(* stack: after n navigations by a single number followed by n commands b  *)
(* the current folder id and path (and the history) are those from before  *)
(* the navigations; b with an empty history leaves the current folder, the *)
(* path, the history and the selection unchanged.                          *)

BackIsLifo ==
    op = "browseCommand" =>
      /\ \A i \in 1..Len(earlier) : \A n \in 1..Len(earlier) :
           Excursion(i, n) =>
             /\ After(i + 2 * n - 1).currentFolderId = Before(i).currentFolderId
             /\ After(i + 2 * n - 1).currentPath = Before(i).currentPath
             /\ After(i + 2 * n - 1).history = Before(i).history
      /\ \A k \in 1..Len(earlier) :
           GoesBack(k) /\ Before(k).history = << >> => After(k) = Before(k)

\* from the root into folder 21, on into folder 24, and b twice
BackIsLifoWitness ==
    /\ op = "browseCommand"
    /\ Len(earlier) = 4
    /\ Excursion(1, 2)
    /\ Before(3).currentFolderId = 24
    /\ Before(3).currentPath = sRoot \o sArrow \o <<"C", "C">> \o sArrow \o <<"X", "1">>
    /\ Len(Before(3).history) = 2
    /\ Before(4).currentFolderId = 21
    /\ loc.currentFolderId = 1
    /\ loc.currentPath = sRoot
    /\ loc.history = << >>

-----------------------------------------------------------------------------
(* Numeric inputs as the user reads them *)

\* the number a digit stands for
Value(ch) == CHOOSE n \in 0..9 : Decimal(n) = <<ch>>

\* the k-th input is comma-separated numbers or a range
IsMulti(k) ==
    /\ Len(earlier[k].input) = 3
    /\ earlier[k].input[2] \in {",", "-"}

\* the numbers such an input names
Named(input) ==
    LET a == Value(input[1])
        b == Value(input[3])
    IN IF input[2] = "," THEN {a, b}
       ELSE {n \in 0..9 : (a <= n /\ n <= b) \/ (b <= n /\ n <= a)}

\* the ids of the folders on display that the k-th input names
NamedVisible(k) ==
    {earlier[k].folders[n].id : n \in Named(earlier[k].input) \cap (1..Len(earlier[k].folders))}

Ids(sel) == {sel[i].id : i \in 1..Len(sel)}

\* a comma-separated or range input that names two or more of the folders on
\* display adds them to the selection and moves nowhere
SeveralNamedAreSelected ==
    op = "browseCommand" =>
      \A k \in 1..Len(earlier) :
        IsMulti(k) /\ Cardinality(NamedVisible(k)) >= 2 =>
          /\ After(k).currentFolderId = Before(k).currentFolderId
          /\ After(k).currentPath = Before(k).currentPath
          /\ After(k).history = Before(k).history
          /\ Ids(After(k).selectedFolders)
               = Ids(Before(k).selectedFolders) \cup NamedVisible(k)

-----------------------------------------------------------------------------
(* C30: an input of comma-separated numbers or a range is a multi-select:  *)
(* it adds the folders on display that it names to the selection and       *)
(* changes neither the current folder nor the history.                     *)

MultiSelectNeverNavigates ==
    op = "browseCommand" =>
      \A k \in 1..Len(earlier) :
        IsMulti(k) =>
          /\ After(k).currentFolderId = Before(k).currentFolderId
          /\ After(k).history = Before(k).history
          /\ Ids(After(k).selectedFolders)
               = Ids(Before(k).selectedFolders) \cup NamedVisible(k)

-----------------------------------------------------------------------------
(* C31: the command a selects all folders on display: where at least one   *)
(* folder is displayed the selection afterwards is exactly the displayed   *)
(* folders, whatever was selected before; where none is displayed the      *)
(* selection is left as it was.  The current folder, path and history do   *)
(* not change.                                                             *)

SelectAllReplaces ==
    op = "browseCommand" =>
      \A k \in 1..Len(earlier) :
        earlier[k].input = <<"a">> =>
          /\ After(k).currentFolderId = Before(k).currentFolderId
          /\ After(k).currentPath = Before(k).currentPath
          /\ After(k).history = Before(k).history
          /\ IF earlier[k].folders # << >>
             THEN /\ Ids(After(k).selectedFolders)
                       = {earlier[k].folders[n].id : n \in 1..Len(earlier[k].folders)}
                  /\ Len(After(k).selectedFolders) = Len(earlier[k].folders)
                  /\ \A n \in 1..Len(earlier[k].folders) :
                       After(k).selectedFolders[n] = earlier[k].folders[n]
             ELSE After(k).selectedFolders = Before(k).selectedFolders

\* folders 21 and 23 selected at the root, then a inside folder 21, which
\* displays folder 24 alone: the selection is folder 24
SelectAllReplacesWitness ==
    /\ op = "browseCommand"
    /\ Len(earlier) = 3
    /\ earlier[3].input = <<"a">>
    /\ Ids(Before(3).selectedFolders) = {21, 23}
    /\ Before(3).currentFolderId = 21
    /\ Ids(loc.selectedFolders) = {24}

\* the command a where no folder is displayed, with folders selected before
SelectAllNothingWitness ==
    /\ op = "browseCommand"
    /\ \E k \in 1..Len(earlier) :
         /\ earlier[k].input = <<"a">>
         /\ earlier[k].folders = << >>
         /\ Before(k).selectedFolders # << >>
         /\ After(k).selectedFolders = Before(k).selectedFolders

-----------------------------------------------------------------------------
(* C32: the command f runs one fetch per selected folder, one after the    *)
(* other in the order the folders were selected, and leaves the selection  *)
(* empty; with nothing selected it runs one fetch, of the current folder.  *)
(* The current folder, path and history do not change.  This is for an f   *)
(* all of whose fetches complete: the loop goes on to the next prompt.     *)

\* the k-th prompt was the last one answered and the loop went on
Completed(k) == k = Len(earlier) /\ pc = "browse"

FetchRunsSelection ==
    op = "browseCommand" =>
      \A k \in 1..Len(earlier) :
        earlier[k].input = <<"f">> /\ Completed(k) =>
          /\ After(k).currentFolderId = Before(k).currentFolderId
          /\ After(k).currentPath = Before(k).currentPath
          /\ After(k).history = Before(k).history
          /\ After(k).selectedFolders = << >>
          /\ IF Before(k).selectedFolders # << >>
             THEN /\ Len(log) = Len(Before(k).selectedFolders)
                  /\ \A n \in 1..Len(log) :
                       log[n].folderId = Before(k).selectedFolders[n].id
             ELSE /\ Len(log) = 1
                  /\ log[1].folderId = Before(k).currentFolderId

\* the three folders of the root selected by the range 3-1, then f: three
\* fetches in display order, each with its output file
FetchRunsSelectionWitness ==
    /\ op = "browseCommand"
    /\ pc = "browse"
    /\ Len(earlier) >= 2
    /\ earlier[Len(earlier)].input = <<"f">>
    /\ Len(log) = 3
    /\ log[1].folderId = 21
    /\ log[2].folderId = 22
    /\ log[3].folderId = 23
    /\ log[2].outputPath = << <<"a", "r", "c", "a", "d", "i", "a", "-", "a", "-", "b",
                                "-", "2", "2", ".", "j", "s", "o", "n">> >>
    /\ loc.selectedFolders = << >>
    /\ loc.currentFolderId = 1

\* f with nothing selected inside folder 21: one fetch, of folder 21,
\* without an output path
FetchCurrentWitness ==
    /\ op = "browseCommand"
    /\ pc = "browse"
    /\ earlier # << >>
    /\ earlier[Len(earlier)].input = <<"f">>
    /\ Before(Len(earlier)).selectedFolders = << >>
    /\ log = << [folderId |-> 21, outputPath |-> << >>] >>
    /\ loc.currentFolderId = 21

-----------------------------------------------------------------------------
(* Request headers other than the one fetch computes from the jar *)

Without(h, key) == [k \in DOMAIN h \ {key} |-> h[k]]

-----------------------------------------------------------------------------
(* C33: the follow-up of a redirect repeats the request with the caller's  *)
(* options, for every redirect status, 303 included: the same method, the  *)
(* same body and the same headers (the Cookie header apart, which is       *)
(* computed from the jar for each request), sent to the resolved location. *)

RedirectRepeatsRequest ==
    op \in {"fetch", "initSession", "getFolderListing", "getAllEntries", "browseFolder"} =>
      \A i \in 2..Len(log) :
        IsRedirect(log[i - 1].resp) =>
          /\ log[i].req.url = Target(log[i - 1].resp.location[1])
          /\ Method(log[i].req) = Method(log[i - 1].req)
          /\ Get(log[i].req.init, "body") = Get(log[i - 1].req.init, "body")
          /\ Without(log[i].req.init.headers, "Cookie")
               = Without(log[i - 1].req.init.headers, "Cookie")
          /\ log[i].req.init.redirect = "manual"

\* the listing request, a POST with a JSON body, is answered 303: the
\* follow-up is a POST with that body
RedirectRepeatsRequestWitness ==
    /\ op = "getFolderListing"
    /\ Len(log) = 2
    /\ log[1].resp.status = 303
    /\ log[1].resp.location # << >>
    /\ Method(log[1].req) = "POST"
    /\ Method(log[2].req) = "POST"
    /\ Get(log[2].req.init, "body") # << >>
    /\ Get(log[2].req.init, "body") = Get(log[1].req.init, "body")
    /\ log[2].req.url = Target(locOther)

-----------------------------------------------------------------------------
(* Counting the windows getAllEntries has asked for *)

\* the exchanges that open a redirect chain: the listing requests proper
WindowIndices == {i \in 1..Len(log) : i = 1 \/ ~IsRedirect(log[i - 1].resp)}

\* max(1, ceil(t / 500))
Ceiling(t) == IF t <= 500 THEN 1 ELSE (t + 499) \div 500

-----------------------------------------------------------------------------
(* C34: getAllEntries issues at most max(1, ceil(T/500)) listing requests  *)
(* (redirect follow-ups apart), T being the total the first page reported  *)
(* (one request when the first listing delivered no page): once that many  *)
(* have been answered no further request is made, whatever totals the      *)
(* later pages report.                                                     *)

RequestsWithinCeiling ==
    (op = "getAllEntries" /\ FinalIndices # {}) =>
      LET limit == IF FirstPage = << >> THEN 1
                   ELSE Ceiling(ReportedTotal(FirstPage[1]))
      IN /\ Cardinality(WindowIndices) <= limit
         /\ Cardinality(FinalIndices) >= limit => pc # "fetch"
         /\ (Cardinality(FinalIndices) >= limit /\ pc = "done") => outcome = "returned"

\* the first page reports 501 entries, the second 5000: getAllEntries
\* returns after two listing requests
RequestsWithinCeilingWitness ==
    /\ Returned("getAllEntries")
    /\ Len(log) = 2
    /\ log[1].resp.body = Json(<<[data |-> <<payloadOther>>]>>)
    /\ log[2].resp.body = Json(<<[data |-> <<payloadBare>>]>>)
    /\ Cardinality(WindowIndices) = 2
    /\ Len(result.entries) = 3

-----------------------------------------------------------------------------
(* C35: the jar never holds an entry whose name is the empty text,         *)
(* whatever Set-Cookie lines the responses carried, lines that start with  *)
(* "=" or with blanks followed by "=" included.                            *)

NoEmptyCookieName ==
    op = "parseCookies" =>
      \A i \in 1..Len(cookies) : cookies[i].name # << >>

-----------------------------------------------------------------------------
(* The Cookie header as the backend reads it *)

\* the "name=value" pairs of a Cookie header in order, split at "; "
RECURSIVE PairsInOrder(_)
PairsInOrder(h) ==
    IF h = << >> THEN << >>
    ELSE LET cuts == {k \in 1..(Len(h) - 1) : h[k] = ";" /\ h[k + 1] = " "}
         IN IF cuts = {} THEN <<h>>
            ELSE <<SubSeq(h, 1, First(cuts) - 1)>>
                 \o PairsInOrder(SubSeq(h, First(cuts) + 2, Len(h)))

\* the name of a pair: its text before the first "="
NameOf(pair) ==
    IF Places(pair, "=") = {} THEN pair
    ELSE SubSeq(pair, 1, First(Places(pair, "=")) - 1)

-----------------------------------------------------------------------------
(* C36: a cookie name that has been set, once or several times, within one *)
(* response or across responses, has exactly one entry in the jar, with    *)
(* the value of the line processed last among those that set it, and       *)
(* appears exactly once in the Cookie header, with that value.             *)

OneEntryPerName ==
    (op = "parseCookies" /\ pc = "done") =>
      LET lines  == response.setCookie
          header == PairsInOrder(getCookieHeader(cookies))
      IN /\ \A i \in 1..Len(lines) :
              Parsed(lines[i]) # << >> =>
                LET name == Parsed(lines[i])[1].name
                    last == CHOOSE j \in i..Len(lines) :
                              /\ Parsed(lines[j]) # << >>
                              /\ Parsed(lines[j])[1].name = name
                              /\ \A k \in (j + 1)..Len(lines) :
                                   Parsed(lines[k]) = << >> \/ Parsed(lines[k])[1].name # name
                    value == Parsed(lines[last])[1].value
                IN /\ Cardinality({k \in 1..Len(cookies) : cookies[k].name = name}) = 1
                   /\ [name |-> name, value |-> value] \in JarSet(cookies)
                   /\ Cardinality({k \in 1..Len(header) : NameOf(header[k]) = name}) = 1
                   /\ \E k \in 1..Len(header) : header[k] = name \o <<"=">> \o value
         /\ \A a, b \in 1..Len(cookies) : cookies[a].name = cookies[b].name => a = b
         /\ Len(header) = Len(cookies)

\* A -> 1 and B -> 7 are in the jar from earlier responses; a response sets
\* A=1 and then A=2: the jar holds A -> 2 in its old place, the header is
\* A=2; B=7
OneEntryPerNameWitness ==
    /\ op = "parseCookies"
    /\ pc = "done"
    /\ jar0 = <<[name |-> <<"A">>, value |-> <<"1">>], [name |-> <<"B">>, value |-> <<"7">>]>>
    /\ response.setCookie = <<scA1, scA2Path>>
    /\ cookies = <<[name |-> <<"A">>, value |-> <<"2">>], [name |-> <<"B">>, value |-> <<"7">>]>>
    /\ getCookieHeader(cookies) = <<"A", "=", "2", ";", " ", "B", "=", "7">>

-----------------------------------------------------------------------------
(* The envelope of the first listing an operation received *)

\* the JSON object of the first listing, << >> when it delivered none
FirstEnvelope ==
    LET r == log[First(FinalIndices)].resp
    IN IF r.status >= 200 /\ r.status <= 299 /\ r.body.parses THEN r.body.value
       ELSE << >>

\* folder name and row ids a payload stands for
NameIn(p) == IF "name" \in DOMAIN p THEN p.name ELSE ""
RowIds(p) == [n \in 1..Len(RowsOf(p)) |-> RowsOf(p)[n].entryId]

\* the result starts with the rows of payload p under the name of p
DecodedFrom(p) ==
    /\ result.folderName = NameIn(p)
    /\ Len(result.entries) >= Len(RowIds(p))
    /\ \A n \in 1..Len(RowIds(p)) : result.entries[n].id = RowIds(p)[n]

-----------------------------------------------------------------------------
(* C37: when a listing carries both envelope keys the payload under "data" *)
(* is decoded and "d" is ignored; "d" is decoded only when "data" is       *)
(* absent or null.                                                         *)

DataBeforeD ==
    ((Returned("getAllEntries") \/ Returned("browseFolder"))
       /\ FinalIndices # {} /\ FirstEnvelope # << >>) =>
      LET env == FirstEnvelope[1] IN
      /\ ("data" \in DOMAIN env /\ env.data # << >>) => DecodedFrom(env.data[1])
      /\ ("d" \in DOMAIN env /\ env.d # << >>
            /\ ("data" \notin DOMAIN env \/ env.data = << >>)) => DecodedFrom(env.d[1])

\* the first listing carries Clerk under "data" and Other under "d": the
\* folder returned is Clerk and begins with its rows 11 and 12
DataBeforeDWitness ==
    /\ Returned("getAllEntries")
    /\ log[1].resp.body = Json(<<[data |-> <<payloadBig>>, d |-> <<payloadOther>>]>>)
    /\ result.folderName = "Clerk"
    /\ result.entries[1].id = 11
    /\ result.entries[2].id = 12

\* "data" is null and "d" carries Other: the folder returned is Other
DataNullWitness ==
    /\ Returned("browseFolder")
    /\ log[1].resp.body = Json(<<[data |-> << >>, d |-> <<payloadOther>>]>>)
    /\ result.folderName = "Other"
    /\ result.entries[1].id = 13

-----------------------------------------------------------------------------
(* C38: initSession on a client whose jar already holds cookies returns    *)
(* true whatever its two requests and their redirect chains answer, no     *)
(* cookie being set included: the jar is not reset, its cookies are sent   *)
(* with the first request and are still in the jar at the return.          *)

StaleJarCountsAsSession ==
    (op = "initSession" /\ jar0 # << >>) =>
      /\ \A i \in 1..Len(jar0) : \E j \in 1..Len(cookies) : cookies[j].name = jar0[i].name
      /\ log # << >> => CookieOf(log[1]) = getCookieHeader(jar0)
      /\ Returned("initSession") => result = TRUE

\* an earlier operation left a cookie in the jar; neither the root page nor
\* the login page sets one, and initSession returns true
StaleJarCountsAsSessionWitness ==
    /\ Returned("initSession")
    /\ calls = 2
    /\ jar0 # << >>
    /\ Len(log) = 2
    /\ \A i \in 1..Len(log) : log[i].resp.setCookie = << >>
    /\ cookies = jar0
    /\ result = TRUE

-----------------------------------------------------------------------------
(* The numbers of folders a location may display *)

FolderCounts == 0..3

\* the input of the prompt answered last was taken by the numeric branch
LastNumeric ==
    /\ earlier # << >>
    /\ \A i \in 1..Len(earlier[Len(earlier)].input) :
         earlier[Len(earlier)].input[i]
           \in {"0", "1", "2", "3", "4", "5", "6", "7", "8", "9", ",", "-", " "}

-----------------------------------------------------------------------------
(* C39: every folder index the browse loop dereferences is valid: for each *)
(* input and each number of folders on display the numbers parseSelection  *)
(* returns lie in 1..folders.length, ascending and without duplicates, so  *)
(* neither navigation nor multi-select reads an undefined folder (the loop *)
(* never ends in a TypeError, a navigation leads into a folder on display, *)
(* a multi-select adds folders on display only); where no folder is on     *)
(* display a numeric input is an invalid selection and changes nothing.    *)

IndicesValid ==
    op = "browseCommand" =>
      /\ result # <<"TypeError">>
      /\ LastNumeric =>
           LET k       == Len(earlier)
               input   == earlier[k].input
               folders == earlier[k].folders
               shown   == {folders[n].id : n \in 1..Len(folders)}
           IN /\ \A max \in FolderCounts :
                   LET sel == parseSelection(input, max)
                   IN /\ \A n \in 1..Len(sel) : sel[n] >= 1 /\ sel[n] <= max
                      /\ \A n \in 1..(Len(sel) - 1) : sel[n] < sel[n + 1]
              /\ loc.currentFolderId # Before(k).currentFolderId =>
                   loc.currentFolderId \in shown
              /\ Ids(loc.selectedFolders) \subseteq Ids(Before(k).selectedFolders) \cup shown
              /\ folders = << >> => loc = Before(k)

\* inside folder 22, which displays no folder, the input 1,3 changes nothing;
\* before that the range 2-2 led from the root into folder 22
IndicesValidWitness ==
    /\ op = "browseCommand"
    /\ pc = "browse"
    /\ Len(earlier) = 2
    /\ earlier[1].input = <<"2", "-", "2">>
    /\ earlier[2].input = <<"1", ",", "3">>
    /\ earlier[2].folders = << >>
    /\ loc = Before(2)
    /\ loc.currentFolderId = 22

\* 1,9 at the root, where three folders are displayed: 9 is dropped and
\* folder 21, the first on display, is entered
OutOfRangeDroppedWitness ==
    /\ op = "browseCommand"
    /\ Len(earlier) = 1
    /\ earlier[1].input = <<"1", ",", "9">>
    /\ Len(earlier[1].folders) = 3
    /\ parseSelection(earlier[1].input, 3) = <<1>>
    /\ loc.currentFolderId = 21

-----------------------------------------------------------------------------
(* The fetch command: fetchCommand of the command line                     *)
(*                                                                         *)
(* A specification of its own over the same variables: args holds the      *)
(* folder id and the optional output path, result the FolderContents the   *)
(* awaited getAllEntries returned, log the files written, each with its    *)
(* name and the object serialised into it; pc is "fetch" until             *)
(* getAllEntries has returned, then "fetched", then "done".                *)

\* number of entries a fetched folder has
MaxEntries == 3

sBrowsePage  == <<"/", "B", "r", "o", "w", "s", "e", ".", "a", "s", "p", "x", "?", "i", "d", "=">>
sDocViewPage == <<"/", "D", "o", "c", "V", "i", "e", "w", ".", "a", "s", "p", "x", "?", "i", "d", "=">>
sDbidParam   == <<"&", "d", "b", "i", "d", "=">>
sDefaultFile == <<"a", "r", "c", "a", "d", "i", "a", "-", "e", "n", "t", "r", "i", "e", "s",
                  ".", "j", "s", "o", "n">>
sOutFile     == <<"o", "u", "t", ".", "j", "s", "o", "n">>

\* `${config.baseUrl}<page>${id}&dbid=${config.dbid}&repo=${config.repoName}`
entryUrl(page, id) ==
    config.baseUrl \o page \o Decimal(id) \o sDbidParam \o Decimal(config.dbid)
      \o sRepoParam \o config.repoName

\* ({ ...e, url })
withUrl(e, u) == [k \in DOMAIN e \cup {"url"} |-> IF k = "url" THEN u ELSE e[k]]

\* mutant: the documents are the entries labelled Document
artifactDocuments_labelled(entries) ==
    LET documents == SelectSeq(entries, LAMBDA e : e.type = "Document")
    IN [i \in 1..Len(documents) |->
          withUrl(documents[i], entryUrl(sDocViewPage, documents[i].id))]

\* entries.filter((e) => e.type === "Folder") with the Browse url of each
artifactFolders(entries) ==
    LET folders == SelectSeq(entries, LAMBDA e : e.type = "Folder")
    IN [i \in 1..Len(folders) |->
          withUrl(folders[i], entryUrl(sBrowsePage, folders[i].id))]

\* entries.filter((e) => e.type !== "Folder") with the DocView url of each
artifactDocuments(entries) ==
    LET documents == SelectSeq(entries, LAMBDA e : e.type # "Folder")
    IN [i \in 1..Len(documents) |->
          withUrl(documents[i], entryUrl(sDocViewPage, documents[i].id))]

\* the object `output`
artifact(folderId, contents, now) ==
    [ folderId     |-> folderId,
      folderName   |-> contents.folderName,
      repository   |-> config.repoName,
      folderUrl    |-> entryUrl(sBrowsePage, folderId),
      fetchedAt    |-> now,
      totalEntries |-> Len(contents.entries),
      folders      |-> artifactFolders(contents.entries),
      documents    |-> artifactDocuments(contents.entries) ]

\* outputPath || "arcadia-entries.json"
artifactFile(outputPath) ==
    IF outputPath # << >> /\ outputPath[1] # << >> THEN outputPath[1] ELSE sDefaultFile

\* the entries getAllEntries may return: one per kind of row
FetchedEntries == {allEntry(rowFolder, colsA), allEntry(rowDocument, colsA),
                   allEntry(rowShortcut, colsB), allEntry(rowAltDoc, colsA),
                   allEntry(rowUnknown, colsB)}

\* the FolderContents getAllEntries may return
FetchedContents ==
    {[folderName |-> "Clerk", entries |-> es] : es \in SeqsUpTo(FetchedEntries, MaxEntries)}

\* new Date().toISOString()
Clock == {"2026-01-01T00:00:00.000Z", "2026-01-02T00:00:00.000Z"}

\* the outputPath argument: none, a path, the empty string
OutputPaths == {<< >>, <<sOutFile>>, << << >> >>}

FetchInit ==
    /\ \E o \in OutputPaths : args = [folderId |-> 874714, outputPath |-> o]
    /\ op = "fetchCommand"
    /\ pc = "fetch"
    /\ outcome = "none"
    /\ result = << >>
    /\ log = << >>
    /\ calls = 0
    /\ cookies = << >>
    /\ phase = 0
    /\ url = << >>
    /\ options = << >>
    /\ response = Failure
    /\ listing = << >>
    /\ loc = allLocals0
    /\ earlier = {}
    /\ jar0 = << >>

\* the awaited getAllEntries returns
fetchCommandListed ==
    /\ pc = "fetch"
    /\ \E c \in FetchedContents : result' = <<c>>
    /\ pc' = "fetched"
    /\ UNCHANGED <<cookies, log, calls, op, args, phase, url, options, response,
                   listing, loc, outcome, earlier, jar0>>

\* the awaited initSession or getAllEntries rejects: fetchCommand rejects
fetchCommandRaise ==
    /\ pc = "fetch"
    /\ pc' = "done"
    /\ outcome' = "raised"
    /\ UNCHANGED <<cookies, log, calls, op, args, phase, url, options, response,
                   listing, loc, result, earlier, jar0>>

\* entries.length === 0: return without writing
fetchCommandEmpty ==
    /\ pc = "fetched"
    /\ Len(result[1].entries) = 0
    /\ pc' = "done"
    /\ outcome' = "returned"
    /\ UNCHANGED <<cookies, log, calls, op, args, phase, url, options, response,
                   listing, loc, result, earlier, jar0>>

\* the report, then fs.writeFileSync(filename, JSON.stringify(output))
fetchCommandSave ==
    /\ pc = "fetched"
    /\ Len(result[1].entries) # 0
    /\ \E now \in Clock :
         log' = Append(log, [ filename |-> artifactFile(args.outputPath),
                              output   |-> artifact(args.folderId, result[1], now) ])
    /\ pc' = "done"
    /\ outcome' = "returned"
    /\ UNCHANGED <<cookies, calls, op, args, phase, url, options, response,
                   listing, loc, result, earlier, jar0>>

FetchNext ==
    \/ fetchCommandListed
    \/ fetchCommandRaise
    \/ fetchCommandEmpty
    \/ fetchCommandSave

FetchSpec == FetchInit /\ [][FetchNext]_vars

-----------------------------------------------------------------------------
(* Reading the artifact *)

\* an entry of the artifact without the url added to it
Bare(x) == [k \in DOMAIN x \ {"url"} |-> x[k]]

\* how many times the value e occurs in the sequence q
Occurs(e, q) == Cardinality({i \in 1..Len(q) : q[i] = e})

BareSeq(q) == [i \in 1..Len(q) |-> Bare(q[i])]

-----------------------------------------------------------------------------
(* C40: in the artifact fetchCommand saves, folders and documents          *)
(* partition the fetched entries: every entry is in exactly one of the two *)
(* lists, folders holding the entries of type Folder and documents all     *)
(* others (Shortcut and Unknown included), each list in fetch order;       *)
(* totalEntries is the number of entries fetched, the sum of the two       *)
(* lengths; when the fetch returned no entry no file is written.           *)

ArtifactPartitions ==
    (op = "fetchCommand" /\ pc = "done" /\ outcome = "returned") =>
      LET entries == result[1].entries IN
      IF entries = << >> THEN log = << >>
      ELSE /\ Len(log) = 1
           /\ LET out == log[1].output
                  fs  == BareSeq(out.folders)
                  ds  == BareSeq(out.documents)
              IN /\ out.totalEntries = Len(entries)
                 /\ out.totalEntries = Len(fs) + Len(ds)
                 /\ \A i \in 1..Len(entries) :
                      /\ Occurs(entries[i], fs) + Occurs(entries[i], ds)
                           = Occurs(entries[i], entries)
                      /\ Occurs(entries[i], fs) > 0 <=> entries[i].type = "Folder"
                 /\ \A i \in 1..Len(fs) : fs[i].type = "Folder"
                 /\ \A i \in 1..Len(ds) : ds[i].type # "Folder"
                 /\ fs = SelectSeq(entries, LAMBDA e : e.type = "Folder")
                 /\ ds = SelectSeq(entries, LAMBDA e : e.type # "Folder")

\* a shortcut, a folder and a row of unknown type were fetched: the file
\* lists the folder under folders, the other two under documents
ArtifactPartitionsWitness ==
    /\ op = "fetchCommand"
    /\ pc = "done"
    /\ outcome = "returned"
    /\ Len(result[1].entries) = 3
    /\ result[1].entries[1].type = "Shortcut"
    /\ result[1].entries[2].type = "Folder"
    /\ result[1].entries[3].type = "Unknown(99)"
    /\ Len(log) = 1
    /\ log[1].filename = sDefaultFile
    /\ log[1].output.totalEntries = 3
    /\ Len(log[1].output.folders) = 1
    /\ Len(log[1].output.documents) = 2
    /\ log[1].output.documents[2].id = 15

\* the fetch returned no entry: fetchCommand returns and no file exists
NothingSavedWitness ==
    /\ op = "fetchCommand"
    /\ pc = "done"
    /\ outcome = "returned"
    /\ result[1].entries = << >>
    /\ log = << >>

====
